---- MODULE Spec2Model ----
(***************************************************************************)
(* Model of the FastoNoSQL embedded-store connections                      *)
(*   src/src/core/db/lmdb/db_connection.cpp                                *)
(*   src/src/core/db/upscaledb/db_connection.cpp                           *)
(* One DBConnection, used by one caller at a time.  The native libraries   *)
(* (liblmdb, libupscaledb) are modelled by their documented behaviour on   *)
(* an ordered table of records; every native call can be made to fail by   *)
(* naming its position in the handler's sequence of native calls.          *)
(***************************************************************************)
EXTENDS Integers, Sequences, FiniteSets, TLC

VARIABLES backend, table, last, chain, handle, config, store, val, result

vars == <<backend, table, last, chain, handle, config, store, val, result>>

(***************************************************************************)
(* Bounds of the model                                                     *)
(***************************************************************************)
MaxCursor == 2      \* largest cursor_in handed to SCAN
MaxCount == 2       \* largest count_keys (SCAN) and limit (KEYS)
MaxDelKeys == 2     \* longest key list handed to DELETE
MaxCalls == 9       \* native calls of one handler that can be made to fail

(***************************************************************************)
(* Bytes, keys, values, patterns                                           *)
(***************************************************************************)
Backends == {"lmdb", "upscaledb"}

\* key universe: "a", "ab", "b", "c" as byte sequences
KeySpace == { <<97>>, <<97, 98>>, <<98>>, <<99>> }

\* value universe: "x", "yz"
ValueSpace == { <<120>>, <<121, 122>> }

STAR == 42
QMARK == 63

\* "*", "a*", "?", "b", "a?"
PatternSpace == { <<STAR>>, <<97, STAR>>, <<QMARK>>, <<98>>, <<97, QMARK>> }

\* the positions of the native calls that fail: none, or one of the handler's calls
FaultSets == { {} } \cup { {n} : n \in 1..MaxCalls }

Failed(F, n) == n \in F

\* number of injected failures the handler actually ran into
Hits(F, calls) == Cardinality(F \cap (1..calls))

(***************************************************************************)
(* Native status codes and the Error object                                *)
(***************************************************************************)
LMDB_OK == "MDB_SUCCESS"
MDB_NOTFOUND == "MDB_NOTFOUND"
MDB_KEYEXIST == "MDB_KEYEXIST"
MDB_NOOVERWRITE == "MDB_NOOVERWRITE"
MDB_FAIL == "MDB_FAIL"                 \* any other native failure (EIO, EACCES, MDB_MAP_FULL ...)

UPS_SUCCESS == "UPS_SUCCESS"
UPS_KEY_NOT_FOUND == "UPS_KEY_NOT_FOUND"
UPS_DUPLICATE_KEY == "UPS_DUPLICATE_KEY"
UPS_OVERWRITE == "UPS_OVERWRITE"
UPS_FAIL == "UPS_FAIL"                 \* any other native failure (UPS_IO_ERROR ...)

\* common::Error(): the null error
NoError == <<>>

\* the status a native "not found" has on the backend
NotFoundCode(b) == IF b = "lmdb" THEN MDB_NOTFOUND ELSE UPS_KEY_NOT_FOUND

LmdbCheckResultCommand(cmd, rc) == IF rc # LMDB_OK THEN <<cmd, rc>> ELSE NoError

UpsCheckResultCommand(cmd, st) == IF st # UPS_SUCCESS THEN <<cmd, st>> ELSE NoError

(***************************************************************************)
(* The ordered table behind the open dbi / db handle                       *)
(***************************************************************************)
RECURSIVE StrLess(_, _)
\* std::string operator< : bytewise lexicographic, a proper prefix is smaller
StrLess(a, b) ==
  IF b = <<>> THEN FALSE
  ELSE IF a = <<>> THEN TRUE
  ELSE IF Head(a) # Head(b) THEN Head(a) < Head(b)
  ELSE StrLess(Tail(a), Tail(b))

TableKeys(t) == { t[i].key : i \in 1..Len(t) }

HasKey(t, k) == k \in TableKeys(t)

Lookup(t, k) == (CHOOSE i \in 1..Len(t) : t[i].key = k)

ValueOf(t, k) == t[Lookup(t, k)].val

\* the record of k is replaced, or inserted at its place in key order
TreePut(t, k, v) ==
  SelectSeq(t, LAMBDA r : StrLess(r.key, k)) \o << [key |-> k, val |-> v] >>
     \o SelectSeq(t, LAMBDA r : StrLess(k, r.key))

TreeErase(t, k) == SelectSeq(t, LAMBDA r : r.key # k)

IsSorted(t) == \A i \in 1..Len(t) : \A j \in 1..Len(t) : i < j => StrLess(t[i].key, t[j].key)

(***************************************************************************)
(* Pattern matching of SCAN: '*' any run of bytes, '?' any single byte     *)
(***************************************************************************)
RECURSIVE MatchPattern(_, _)
MatchPattern(s, p) ==
  IF p = <<>> THEN s = <<>>
  ELSE IF Head(p) = STAR
       THEN MatchPattern(s, Tail(p)) \/ (s # <<>> /\ MatchPattern(Tail(s), p))
  ELSE IF s = <<>> THEN FALSE
  ELSE (Head(p) = QMARK \/ Head(p) = Head(s)) /\ MatchPattern(Tail(s), Tail(p))

(***************************************************************************)
(* Native calls.  Each returns the status and, for a write, the table the  *)
(* transaction would leave.                                                *)
(***************************************************************************)
\* mdb_put(txn, dbi, key, data, flags)
mdb_put(t, k, v, flags) ==
  IF flags = MDB_NOOVERWRITE /\ HasKey(t, k)
  THEN [rc |-> MDB_KEYEXIST, table |-> t]
  ELSE [rc |-> LMDB_OK, table |-> TreePut(t, k, v)]

\* mdb_get(txn, dbi, key, data)
mdb_get(t, k) ==
  IF HasKey(t, k) THEN [rc |-> LMDB_OK, val |-> ValueOf(t, k)]
  ELSE [rc |-> MDB_NOTFOUND, val |-> <<>>]

\* mdb_del(txn, dbi, key, NULL)
mdb_del(t, k) ==
  IF HasKey(t, k) THEN [rc |-> LMDB_OK, table |-> TreeErase(t, k)]
  ELSE [rc |-> MDB_NOTFOUND, table |-> t]

\* ups_db_insert(db, 0, key, record, flags)
ups_db_insert(t, k, v, flags) ==
  IF flags # UPS_OVERWRITE /\ HasKey(t, k)
  THEN [rc |-> UPS_DUPLICATE_KEY, table |-> t]
  ELSE [rc |-> UPS_SUCCESS, table |-> TreePut(t, k, v)]

\* ups_db_find(db, NULL, key, record, 0)
ups_db_find(t, k) ==
  IF HasKey(t, k) THEN [rc |-> UPS_SUCCESS, val |-> ValueOf(t, k)]
  ELSE [rc |-> UPS_KEY_NOT_FOUND, val |-> <<>>]

\* ups_db_erase(db, 0, key, 0)
ups_db_erase(t, k) ==
  IF HasKey(t, k) THEN [rc |-> UPS_SUCCESS, table |-> TreeErase(t, k)]
  ELSE [rc |-> UPS_KEY_NOT_FOUND, table |-> t]

(***************************************************************************)
(* SetInner / GetInner / DelInner.  n is the number of native calls the    *)
(* handler has made so far; the result carries the new number and, in ev,  *)
(* the transactions and cursors the handler began and ended, in order.     *)
(***************************************************************************)
LmdbSetFlags == "0"

\* the write transaction is ended without its effect reaching the table
LmdbSetInnerAborting(t, key, value, F, n) ==
  IF Failed(F, n + 1)
  THEN [table |-> t, err |-> LmdbCheckResultCommand("SET", MDB_FAIL), calls |-> n + 1, ev |-> <<>>]
  ELSE LET put == mdb_put(t, key, value, LmdbSetFlags)
           rc == IF Failed(F, n + 2) THEN MDB_FAIL ELSE put.rc
       IN IF rc # LMDB_OK
          THEN [table |-> t, err |-> LmdbCheckResultCommand("SET", rc), calls |-> n + 2,
                ev |-> <<"txn_begin", "txn_abort">>]
          ELSE [table |-> t, err |-> NoError, calls |-> n + 3,
                ev |-> <<"txn_begin", "txn_abort">>]

LmdbSetInner(t, key, value, F, n) ==
  IF Failed(F, n + 1)                                   \* mdb_txn_begin
  THEN [table |-> t, err |-> LmdbCheckResultCommand("SET", MDB_FAIL), calls |-> n + 1, ev |-> <<>>]
  ELSE LET put == mdb_put(t, key, value, LmdbSetFlags)
           rc == IF Failed(F, n + 2) THEN MDB_FAIL ELSE put.rc
       IN IF rc # LMDB_OK                               \* mdb_txn_abort
          THEN [table |-> t, err |-> LmdbCheckResultCommand("SET", rc), calls |-> n + 2,
                ev |-> <<"txn_begin", "txn_abort">>]
          ELSE IF Failed(F, n + 3)                      \* mdb_txn_commit
               THEN [table |-> t, err |-> LmdbCheckResultCommand("SET", MDB_FAIL), calls |-> n + 3,
                ev |-> <<"txn_begin", "txn_commit_failed">>]
               ELSE [table |-> put.table, err |-> NoError, calls |-> n + 3,
                ev |-> <<"txn_begin", "txn_commit">>]

\* the read transaction is committed
LmdbGetInnerCommits(t, key, F, n) ==
  IF Failed(F, n + 1)
  THEN [err |-> LmdbCheckResultCommand("GET", MDB_FAIL), val |-> <<>>, calls |-> n + 1, ev |-> <<>>]
  ELSE LET get == mdb_get(t, key)
           rc == IF Failed(F, n + 2) THEN MDB_FAIL ELSE get.rc
       IN IF rc # LMDB_OK
          THEN [err |-> LmdbCheckResultCommand("GET", rc), val |-> <<>>, calls |-> n + 2,
                ev |-> <<"txn_begin", "txn_abort">>]
          ELSE [err |-> NoError, val |-> get.val, calls |-> n + 2,
                ev |-> <<"txn_begin", "txn_commit">>]

LmdbGetInner(t, key, F, n) ==
  IF Failed(F, n + 1)                                   \* mdb_txn_begin
  THEN [err |-> LmdbCheckResultCommand("GET", MDB_FAIL), val |-> <<>>, calls |-> n + 1, ev |-> <<>>]
  ELSE LET get == mdb_get(t, key)
           rc == IF Failed(F, n + 2) THEN MDB_FAIL ELSE get.rc
       IN IF rc # LMDB_OK
          THEN [err |-> LmdbCheckResultCommand("GET", rc), val |-> <<>>, calls |-> n + 2,
                ev |-> <<"txn_begin", "txn_abort">>]
          ELSE [err |-> NoError, val |-> get.val, calls |-> n + 2,
                ev |-> <<"txn_begin", "txn_abort">>]

\* the delete transaction is ended without its effect reaching the table
LmdbDelInnerAborting(t, key, F, n) ==
  IF Failed(F, n + 1)
  THEN [table |-> t, err |-> LmdbCheckResultCommand("DEL", MDB_FAIL), calls |-> n + 1, ev |-> <<>>]
  ELSE LET del == mdb_del(t, key)
           rc == IF Failed(F, n + 2) THEN MDB_FAIL ELSE del.rc
       IN IF rc # LMDB_OK
          THEN [table |-> t, err |-> LmdbCheckResultCommand("DEL", rc), calls |-> n + 2,
                ev |-> <<"txn_begin", "txn_abort">>]
          ELSE [table |-> t, err |-> NoError, calls |-> n + 3,
                ev |-> <<"txn_begin", "txn_abort">>]

LmdbDelInner(t, key, F, n) ==
  IF Failed(F, n + 1)                                   \* mdb_txn_begin
  THEN [table |-> t, err |-> LmdbCheckResultCommand("DEL", MDB_FAIL), calls |-> n + 1, ev |-> <<>>]
  ELSE LET del == mdb_del(t, key)
           rc == IF Failed(F, n + 2) THEN MDB_FAIL ELSE del.rc
       IN IF rc # LMDB_OK                               \* mdb_txn_abort
          THEN [table |-> t, err |-> LmdbCheckResultCommand("DEL", rc), calls |-> n + 2,
                ev |-> <<"txn_begin", "txn_abort">>]
          ELSE IF Failed(F, n + 3)                      \* mdb_txn_commit
               THEN [table |-> t, err |-> LmdbCheckResultCommand("DEL", MDB_FAIL), calls |-> n + 3,
                ev |-> <<"txn_begin", "txn_commit_failed">>]
               ELSE [table |-> del.table, err |-> NoError, calls |-> n + 3,
                ev |-> <<"txn_begin", "txn_commit">>]

UpsSetFlags == UPS_OVERWRITE

UpsSetInner(t, key, value, F, n) ==
  LET ins == ups_db_insert(t, key, value, UpsSetFlags)
      st == IF Failed(F, n + 1) THEN UPS_FAIL ELSE ins.rc
  IN [table |-> IF st = UPS_SUCCESS THEN ins.table ELSE t,
      err |-> UpsCheckResultCommand("SET", st), calls |-> n + 1, ev |-> <<>>]

UpsGetInner(t, key, F, n) ==
  LET fnd == ups_db_find(t, key)
      st == IF Failed(F, n + 1) THEN UPS_FAIL ELSE fnd.rc
  IN IF st # UPS_SUCCESS
     THEN [err |-> UpsCheckResultCommand("GET", st), val |-> <<>>, calls |-> n + 1, ev |-> <<>>]
     ELSE [err |-> NoError, val |-> fnd.val, calls |-> n + 1, ev |-> <<>>]

UpsDelInner(t, key, F, n) ==
  LET ers == ups_db_erase(t, key)
      st == IF Failed(F, n + 1) THEN UPS_FAIL ELSE ers.rc
  IN [table |-> IF st = UPS_SUCCESS THEN ers.table ELSE t,
      err |-> UpsCheckResultCommand("DEL", st), calls |-> n + 1, ev |-> <<>>]

SetInner(b, t, key, value, F, n) ==
  IF b = "lmdb" THEN LmdbSetInner(t, key, value, F, n) ELSE UpsSetInner(t, key, value, F, n)

GetInner(b, t, key, F, n) ==
  IF b = "lmdb" THEN LmdbGetInner(t, key, F, n) ELSE UpsGetInner(t, key, F, n)

DelInner(b, t, key, F, n) ==
  IF b = "lmdb" THEN LmdbDelInner(t, key, F, n) ELSE UpsDelInner(t, key, F, n)

(***************************************************************************)
(* ScanImpl                                                                *)
(***************************************************************************)
RECURSIVE LmdbScanLoopCountsAll(_, _, _, _, _, _, _, _, _)
\* the skip counter is decremented for every visited key, matching or not
LmdbScanLoopCountsAll(t, i, offset_pos, lkeys_out, cursor_in, pattern, count_keys, F, n) ==
  IF i > Len(t) \/ Failed(F, n + 1)
  THEN [keys_out |-> lkeys_out, cursor_out |-> 0, calls |-> n + 1]
  ELSE IF Len(lkeys_out) < count_keys
       THEN IF offset_pos = 0
            THEN IF MatchPattern(t[i].key, pattern)
                 THEN LmdbScanLoopCountsAll(t, i + 1, offset_pos, Append(lkeys_out, t[i].key),
                                            cursor_in, pattern, count_keys, F, n + 1)
                 ELSE LmdbScanLoopCountsAll(t, i + 1, offset_pos, lkeys_out,
                                            cursor_in, pattern, count_keys, F, n + 1)
            ELSE LmdbScanLoopCountsAll(t, i + 1, offset_pos - 1, lkeys_out,
                                       cursor_in, pattern, count_keys, F, n + 1)
       ELSE [keys_out |-> lkeys_out, cursor_out |-> cursor_in + count_keys, calls |-> n + 1]

RECURSIVE LmdbScanLoop(_, _, _, _, _, _, _, _, _)
\* while (mdb_cursor_get(cursor, &key, &data, MDB_NEXT) == LMDB_OK) { ... }
\* i is the position of the record the next MDB_NEXT delivers
LmdbScanLoop(t, i, offset_pos, lkeys_out, cursor_in, pattern, count_keys, F, n) ==
  IF i > Len(t) \/ Failed(F, n + 1)
  THEN [keys_out |-> lkeys_out, cursor_out |-> 0, calls |-> n + 1]
  ELSE IF Len(lkeys_out) < count_keys
       THEN IF MatchPattern(t[i].key, pattern)
            THEN IF offset_pos = 0
                 THEN LmdbScanLoop(t, i + 1, offset_pos, Append(lkeys_out, t[i].key),
                                   cursor_in, pattern, count_keys, F, n + 1)
                 ELSE LmdbScanLoop(t, i + 1, offset_pos - 1, lkeys_out,
                                   cursor_in, pattern, count_keys, F, n + 1)
            ELSE LmdbScanLoop(t, i + 1, offset_pos, lkeys_out,
                              cursor_in, pattern, count_keys, F, n + 1)
       ELSE [keys_out |-> lkeys_out, cursor_out |-> cursor_in + count_keys, calls |-> n + 1]

LmdbScanImpl(t, cursor_in, pattern, count_keys, F) ==
  IF Failed(F, 1)                                       \* mdb_txn_begin
  THEN [err |-> LmdbCheckResultCommand("SCAN", MDB_FAIL), keys_out |-> <<>>, cursor_out |-> 0, calls |-> 1,
        ev |-> <<>>]
  ELSE IF Failed(F, 2)                                  \* mdb_cursor_open
  THEN [err |-> LmdbCheckResultCommand("SCAN", MDB_FAIL), keys_out |-> <<>>, cursor_out |-> 0, calls |-> 2,
        ev |-> <<"txn_begin", "txn_abort">>]
  ELSE LET r == LmdbScanLoop(t, 1, cursor_in, <<>>, cursor_in, pattern, count_keys, F, 2)
       IN [err |-> NoError, keys_out |-> r.keys_out, cursor_out |-> r.cursor_out, calls |-> r.calls,
           ev |-> <<"txn_begin", "cursor_open", "cursor_close", "txn_abort">>]

RECURSIVE UpsScanLoopNoCursor(_, _, _, _, _, _, _, _, _)
\* lcursor_out is left 0 when the page is full
UpsScanLoopNoCursor(t, i, offset_pos, lkeys_out, cursor_in, pattern, count_keys, F, n) ==
  IF Len(lkeys_out) < count_keys
  THEN IF Failed(F, n + 1)
       THEN [err |-> <<"SCAN", UPS_FAIL>>, keys_out |-> <<>>, cursor_out |-> 0, calls |-> n + 1]
       ELSE IF i > Len(t)
       THEN [err |-> NoError, keys_out |-> lkeys_out, cursor_out |-> 0, calls |-> n + 1]
       ELSE IF MatchPattern(t[i].key, pattern)
            THEN IF offset_pos = 0
                 THEN UpsScanLoopNoCursor(t, i + 1, offset_pos, Append(lkeys_out, t[i].key),
                                          cursor_in, pattern, count_keys, F, n + 1)
                 ELSE UpsScanLoopNoCursor(t, i + 1, offset_pos - 1, lkeys_out,
                                          cursor_in, pattern, count_keys, F, n + 1)
            ELSE UpsScanLoopNoCursor(t, i + 1, offset_pos, lkeys_out,
                                     cursor_in, pattern, count_keys, F, n + 1)
  ELSE [err |-> NoError, keys_out |-> lkeys_out, cursor_out |-> 0, calls |-> n]

RECURSIVE UpsScanLoop(_, _, _, _, _, _, _, _, _)
\* while (st == UPS_SUCCESS) { ... }, entered with st == UPS_SUCCESS
UpsScanLoop(t, i, offset_pos, lkeys_out, cursor_in, pattern, count_keys, F, n) ==
  IF Len(lkeys_out) < count_keys
  THEN IF Failed(F, n + 1)                              \* ups_cursor_move fails
       THEN [err |-> <<"SCAN", UPS_FAIL>>, keys_out |-> <<>>, cursor_out |-> 0, calls |-> n + 1]
       ELSE IF i > Len(t)                               \* UPS_KEY_NOT_FOUND: end
       THEN [err |-> NoError, keys_out |-> lkeys_out, cursor_out |-> 0, calls |-> n + 1]
       ELSE IF MatchPattern(t[i].key, pattern)
            THEN IF offset_pos = 0
                 THEN UpsScanLoop(t, i + 1, offset_pos, Append(lkeys_out, t[i].key),
                                  cursor_in, pattern, count_keys, F, n + 1)
                 ELSE UpsScanLoop(t, i + 1, offset_pos - 1, lkeys_out,
                                  cursor_in, pattern, count_keys, F, n + 1)
            ELSE UpsScanLoop(t, i + 1, offset_pos, lkeys_out,
                             cursor_in, pattern, count_keys, F, n + 1)
  ELSE [err |-> NoError, keys_out |-> lkeys_out, cursor_out |-> cursor_in + count_keys, calls |-> n]

UpsScanImpl(t, cursor_in, pattern, count_keys, F) ==
  IF Failed(F, 1)                                       \* ups_cursor_create
  THEN [err |-> UpsCheckResultCommand("SCAN", UPS_FAIL), keys_out |-> <<>>, cursor_out |-> 0, calls |-> 1,
        ev |-> <<>>]
  ELSE LET r == UpsScanLoop(t, 1, cursor_in, <<>>, cursor_in, pattern, count_keys, F, 1)
       IN [err |-> r.err, keys_out |-> r.keys_out, cursor_out |-> r.cursor_out, calls |-> r.calls,
           ev |-> <<"cursor_open", "cursor_close">>]

ScanImpl(b, t, cursor_in, pattern, count_keys, F) ==
  IF b = "lmdb" THEN LmdbScanImpl(t, cursor_in, pattern, count_keys, F)
  ELSE UpsScanImpl(t, cursor_in, pattern, count_keys, F)

(***************************************************************************)
(* KeysImpl                                                                *)
(***************************************************************************)
RECURSIVE LmdbKeysLoop(_, _, _, _, _, _, _, _)
\* while ((mdb_cursor_get(...) == LMDB_OK) && limit > ret->size()) { ... }
LmdbKeysLoop(t, i, ret, key_start, key_end, limit, F, n) ==
  IF i > Len(t) \/ Failed(F, n + 1) THEN [ret |-> ret, calls |-> n + 1]
  ELSE IF ~(limit > Len(ret)) THEN [ret |-> ret, calls |-> n + 1]
  ELSE IF StrLess(key_start, t[i].key) /\ StrLess(t[i].key, key_end)
       THEN LmdbKeysLoop(t, i + 1, Append(ret, t[i].key), key_start, key_end, limit, F, n + 1)
       ELSE LmdbKeysLoop(t, i + 1, ret, key_start, key_end, limit, F, n + 1)

\* the early return on a failed mdb_cursor_open leaves the transaction open
LmdbKeysImplLeaks(t, key_start, key_end, limit, F) ==
  IF Failed(F, 1)
  THEN [err |-> LmdbCheckResultCommand("KEYS", MDB_FAIL), ret |-> <<>>, calls |-> 1, ev |-> <<>>]
  ELSE IF Failed(F, 2)
  THEN [err |-> LmdbCheckResultCommand("KEYS", MDB_FAIL), ret |-> <<>>, calls |-> 2,
        ev |-> <<"txn_begin">>]
  ELSE LET r == LmdbKeysLoop(t, 1, <<>>, key_start, key_end, limit, F, 2)
       IN [err |-> NoError, ret |-> r.ret, calls |-> r.calls,
           ev |-> <<"txn_begin", "cursor_open", "cursor_close", "txn_abort">>]

LmdbKeysImpl(t, key_start, key_end, limit, F) ==
  IF Failed(F, 1)                                       \* mdb_txn_begin
  THEN [err |-> LmdbCheckResultCommand("KEYS", MDB_FAIL), ret |-> <<>>, calls |-> 1, ev |-> <<>>]
  ELSE IF Failed(F, 2)                                  \* mdb_cursor_open
  THEN [err |-> LmdbCheckResultCommand("KEYS", MDB_FAIL), ret |-> <<>>, calls |-> 2,
        ev |-> <<"txn_begin", "txn_abort">>]
  ELSE LET r == LmdbKeysLoop(t, 1, <<>>, key_start, key_end, limit, F, 2)
       IN [err |-> NoError, ret |-> r.ret, calls |-> r.calls,
           ev |-> <<"txn_begin", "cursor_open", "cursor_close", "txn_abort">>]

RECURSIVE UpsKeysLoop(_, _, _, _, _, _, _, _)
\* do { st = ups_cursor_move(...); ... } while (st == UPS_SUCCESS && limit > ret->size());
UpsKeysLoop(t, i, ret, key_start, key_end, limit, F, n) ==
  IF Failed(F, n + 1)                                   \* ups_cursor_move fails
  THEN [err |-> <<"KEYS", UPS_FAIL>>, ret |-> ret, calls |-> n + 1]
  ELSE IF i > Len(t)                                    \* UPS_KEY_NOT_FOUND: end
  THEN [err |-> NoError, ret |-> ret, calls |-> n + 1]
  ELSE LET ret1 == IF StrLess(key_start, t[i].key) /\ StrLess(t[i].key, key_end)
                   THEN Append(ret, t[i].key) ELSE ret
       IN IF limit > Len(ret1)
          THEN UpsKeysLoop(t, i + 1, ret1, key_start, key_end, limit, F, n + 1)
          ELSE [err |-> NoError, ret |-> ret1, calls |-> n + 1]

UpsKeysImpl(t, key_start, key_end, limit, F) ==
  IF Failed(F, 1)                                       \* ups_cursor_create
  THEN [err |-> UpsCheckResultCommand("KEYS", UPS_FAIL), ret |-> <<>>, calls |-> 1, ev |-> <<>>]
  ELSE LET r == UpsKeysLoop(t, 1, <<>>, key_start, key_end, limit, F, 1)
       IN [err |-> r.err, ret |-> r.ret, calls |-> r.calls,
           ev |-> <<"cursor_open", "cursor_close">>]

KeysImpl(b, t, key_start, key_end, limit, F) ==
  IF b = "lmdb" THEN LmdbKeysImpl(t, key_start, key_end, limit, F)
  ELSE UpsKeysImpl(t, key_start, key_end, limit, F)

(***************************************************************************)
(* SetImpl, GetImpl, DeleteImpl, RenameImpl (the same text on both         *)
(* backends, over the backend's Inner functions)                           *)
(***************************************************************************)
SetImpl(b, t, key, value, F) == SetInner(b, t, key, value, F, 0)

GetImpl(b, t, key, F) == GetInner(b, t, key, F, 0)

RECURSIVE DeleteLoopStops(_, _, _, _, _, _, _)
\* the first key that cannot be deleted ends the command with its error
DeleteLoopStops(b, t, keys, i, deleted_keys, F, n) ==
  IF i > Len(keys)
  THEN [table |-> t, err |-> NoError, deleted_keys |-> deleted_keys, calls |-> n, ev |-> <<>>]
  ELSE LET d == DelInner(b, t, keys[i], F, n)
       IN IF d.err # NoError
          THEN [table |-> d.table, err |-> d.err, deleted_keys |-> deleted_keys, calls |-> d.calls,
                ev |-> d.ev]
          ELSE LET r == DeleteLoopStops(b, d.table, keys, i + 1, Append(deleted_keys, keys[i]), F, d.calls)
               IN [r EXCEPT !.ev = d.ev \o @]

RECURSIVE DeleteLoop(_, _, _, _, _, _, _)
\* for (size_t i = 0; i < keys.size(); ++i) { ... }
DeleteLoop(b, t, keys, i, deleted_keys, F, n) ==
  IF i > Len(keys)
  THEN [table |-> t, err |-> NoError, deleted_keys |-> deleted_keys, calls |-> n, ev |-> <<>>]
  ELSE LET d == DelInner(b, t, keys[i], F, n)
           r == IF d.err # NoError
                THEN DeleteLoop(b, d.table, keys, i + 1, deleted_keys, F, d.calls)      \* continue
                ELSE DeleteLoop(b, d.table, keys, i + 1, Append(deleted_keys, keys[i]), F, d.calls)
       IN [r EXCEPT !.ev = d.ev \o @]

DeleteImpl(b, t, keys, F) == DeleteLoop(b, t, keys, 1, <<>>, F, 0)

\* the value is copied to new_key and the old key is kept
RenameImplCopies(b, t, key, new_key, F) ==
  LET g == GetInner(b, t, key, F, 0)
  IN IF g.err # NoError
     THEN [table |-> t, err |-> g.err, calls |-> g.calls, ev |-> g.ev]
     ELSE LET s == SetInner(b, t, new_key, g.val, F, g.calls)
          IN [table |-> s.table, err |-> s.err, calls |-> s.calls, ev |-> g.ev \o s.ev]

\* the result of reading the old key is not checked
RenameImplUnchecked(b, t, key, new_key, F) ==
  LET g == GetInner(b, t, key, F, 0)
      d == DelInner(b, t, key, F, g.calls)
      s == SetInner(b, d.table, new_key, g.val, F, d.calls)
  IN [table |-> s.table, err |-> s.err, calls |-> s.calls, ev |-> g.ev \o d.ev \o s.ev]

RenameImpl(b, t, key, new_key, F) ==
  LET g == GetInner(b, t, key, F, 0)
  IN IF g.err # NoError
     THEN [table |-> t, err |-> g.err, calls |-> g.calls, ev |-> g.ev]
     ELSE LET d == DelInner(b, t, key, F, g.calls)
          IN IF d.err # NoError
             THEN [table |-> d.table, err |-> d.err, calls |-> d.calls, ev |-> g.ev \o d.ev]
             ELSE LET s == SetInner(b, d.table, new_key, g.val, F, d.calls)
                  IN [table |-> s.table, err |-> s.err, calls |-> s.calls,
                      ev |-> g.ev \o d.ev \o s.ev]

(***************************************************************************)
(* DBkcountImpl and FlushDBImpl                                            *)
(***************************************************************************)
RECURSIVE LmdbCountLoopFromOne(_, _, _, _)
\* sz starts at 1
LmdbCountLoopFromOne(t, i, F, n) ==
  IF i > Len(t) \/ Failed(F, n + 1) THEN [sz |-> i, calls |-> n + 1]
  ELSE LmdbCountLoopFromOne(t, i + 1, F, n + 1)

RECURSIVE LmdbCountLoop(_, _, _, _)
\* while (mdb_cursor_get(cursor, &key, &data, MDB_NEXT) == LMDB_OK) { sz++; }
LmdbCountLoop(t, i, F, n) ==
  IF i > Len(t) \/ Failed(F, n + 1) THEN [sz |-> i - 1, calls |-> n + 1]
  ELSE LmdbCountLoop(t, i + 1, F, n + 1)

LmdbDBkcountImpl(t, F, n) ==
  IF Failed(F, n + 1)                                   \* mdb_txn_begin
  THEN [err |-> LmdbCheckResultCommand("DBKCOUNT", MDB_FAIL), size |-> 0, calls |-> n + 1,
        ev |-> <<>>]
  ELSE IF Failed(F, n + 2)                              \* mdb_cursor_open
  THEN [err |-> LmdbCheckResultCommand("DBKCOUNT", MDB_FAIL), size |-> 0, calls |-> n + 2,
        ev |-> <<"txn_begin", "txn_abort">>]
  ELSE LET r == LmdbCountLoop(t, 1, F, n + 2)
       IN [err |-> NoError, size |-> r.sz, calls |-> r.calls,
           ev |-> <<"txn_begin", "cursor_open", "cursor_close", "txn_abort">>]

UpsDBkcountImpl(t, F, n) ==
  IF Failed(F, n + 1)                                   \* ups_db_count
  THEN [err |-> UpsCheckResultCommand("DBKCOUNT", UPS_FAIL), size |-> 0, calls |-> n + 1,
        ev |-> <<>>]
  ELSE [err |-> NoError, size |-> Len(t), calls |-> n + 1, ev |-> <<>>]

DBkcountImpl(b, t, F, n) ==
  IF b = "lmdb" THEN LmdbDBkcountImpl(t, F, n) ELSE UpsDBkcountImpl(t, F, n)

RECURSIVE LmdbFlushLoopKeeps(_, _, _, _, _)
\* the walk counts the keys and deletes none of them
LmdbFlushLoopKeeps(t, cur, i, F, n) ==
  IF i > Len(t) \/ Failed(F, n + 1)
  THEN [err |-> NoError, table |-> cur, sz |-> i - 1, calls |-> n + 1]
  ELSE IF Failed(F, n + 2)
       THEN [err |-> LmdbCheckResultCommand("FLUSHDB", MDB_FAIL), table |-> cur, sz |-> i,
             calls |-> n + 2]
       ELSE LmdbFlushLoopKeeps(t, cur, i + 1, F, n + 2)

RECURSIVE LmdbFlushLoop(_, _, _, _, _)
\* while (mdb_cursor_get(...) == LMDB_OK) { sz++; err = mdb_del(...); if (err) ... }
\* t is the table the transaction started from, cur the table as the
\* transaction sees it
LmdbFlushLoop(t, cur, i, F, n) ==
  IF i > Len(t) \/ Failed(F, n + 1)                     \* mdb_cursor_get: end or failure
  THEN [err |-> NoError, table |-> cur, sz |-> i - 1, calls |-> n + 1]
  ELSE LET del == mdb_del(cur, t[i].key)
           rc == IF Failed(F, n + 2) THEN MDB_FAIL ELSE del.rc
       IN IF rc # LMDB_OK
          THEN [err |-> LmdbCheckResultCommand("FLUSHDB", rc), table |-> cur, sz |-> i,
                calls |-> n + 2]
          ELSE LmdbFlushLoop(t, del.table, i + 1, F, n + 2)

\* the transaction of a walk that met no key is committed as well
LmdbFlushDBImplAlwaysCommits(t, F) ==
  IF Failed(F, 1)                                       \* mdb_txn_begin
  THEN [table |-> t, err |-> LmdbCheckResultCommand("FLUSHDB", MDB_FAIL), calls |-> 1, ev |-> <<>>,
        sz |-> 0]
  ELSE IF Failed(F, 2)                                  \* mdb_cursor_open
  THEN [table |-> t, err |-> LmdbCheckResultCommand("FLUSHDB", MDB_FAIL), calls |-> 2,
        ev |-> <<"txn_begin", "txn_abort">>, sz |-> 0]
  ELSE LET r == LmdbFlushLoop(t, t, 1, F, 2)
       IN IF r.err # NoError                            \* mdb_cursor_close; mdb_txn_abort
          THEN [table |-> t, err |-> r.err, calls |-> r.calls,
                ev |-> <<"txn_begin", "cursor_open", "cursor_close", "txn_abort">>, sz |-> r.sz]
          ELSE IF r.sz >= 0
          THEN IF Failed(F, r.calls + 1)                \* mdb_txn_commit
               THEN [table |-> t, err |-> LmdbCheckResultCommand("FLUSHDB", MDB_FAIL),
                     calls |-> r.calls + 1,
                     ev |-> <<"txn_begin", "cursor_open", "cursor_close", "txn_commit_failed">>,
                     sz |-> r.sz]
               ELSE [table |-> r.table, err |-> NoError, calls |-> r.calls + 1,
                     ev |-> <<"txn_begin", "cursor_open", "cursor_close", "txn_commit">>,
                     sz |-> r.sz]
          ELSE [table |-> t, err |-> NoError, calls |-> r.calls,                \* mdb_txn_abort
                ev |-> <<"txn_begin", "cursor_open", "cursor_close", "txn_abort">>, sz |-> 0]

\* lmdb DBConnection::FlushDBImpl; sz is the number of keys the walk met
LmdbFlushDBImpl(t, F) ==
  IF Failed(F, 1)                                       \* mdb_txn_begin
  THEN [table |-> t, err |-> LmdbCheckResultCommand("FLUSHDB", MDB_FAIL), calls |-> 1, ev |-> <<>>,
        sz |-> 0]
  ELSE IF Failed(F, 2)                                  \* mdb_cursor_open
  THEN [table |-> t, err |-> LmdbCheckResultCommand("FLUSHDB", MDB_FAIL), calls |-> 2,
        ev |-> <<"txn_begin", "txn_abort">>, sz |-> 0]
  ELSE LET r == LmdbFlushLoop(t, t, 1, F, 2)
       IN IF r.err # NoError                            \* mdb_cursor_close; mdb_txn_abort
          THEN [table |-> t, err |-> r.err, calls |-> r.calls,
                ev |-> <<"txn_begin", "cursor_open", "cursor_close", "txn_abort">>, sz |-> r.sz]
          ELSE IF r.sz # 0
          THEN IF Failed(F, r.calls + 1)                \* mdb_txn_commit
               THEN [table |-> t, err |-> LmdbCheckResultCommand("FLUSHDB", MDB_FAIL),
                     calls |-> r.calls + 1,
                     ev |-> <<"txn_begin", "cursor_open", "cursor_close", "txn_commit_failed">>,
                     sz |-> r.sz]
               ELSE [table |-> r.table, err |-> NoError, calls |-> r.calls + 1,
                     ev |-> <<"txn_begin", "cursor_open", "cursor_close", "txn_commit">>,
                     sz |-> r.sz]
          ELSE [table |-> t, err |-> NoError, calls |-> r.calls,                \* mdb_txn_abort
                ev |-> <<"txn_begin", "cursor_open", "cursor_close", "txn_abort">>, sz |-> 0]

RECURSIVE UpsFlushLoop(_, _, _, _, _)
\* do { st = ups_cursor_move(...); if (st == UPS_SUCCESS) ups_db_erase(...); ... }
\* while (st == UPS_SUCCESS); the result of ups_db_erase is not looked at
UpsFlushLoop(t, cur, i, F, n) ==
  IF Failed(F, n + 1)                                   \* ups_cursor_move fails
  THEN [err |-> <<"FLUSHDB", UPS_FAIL>>, table |-> cur, calls |-> n + 1]
  ELSE IF i > Len(t)                                    \* UPS_KEY_NOT_FOUND: end
  THEN [err |-> NoError, table |-> cur, calls |-> n + 1]
  ELSE LET del == ups_db_erase(cur, t[i].key)
           after == IF Failed(F, n + 2) THEN cur ELSE del.table
       IN UpsFlushLoop(t, after, i + 1, F, n + 2)

UpsFlushDBImpl(t, F) ==
  IF Failed(F, 1)                                       \* ups_cursor_create
  THEN [table |-> t, err |-> UpsCheckResultCommand("FLUSHDB", UPS_FAIL), calls |-> 1, ev |-> <<>>]
  ELSE LET r == UpsFlushLoop(t, t, 1, F, 1)
       IN [table |-> r.table, err |-> r.err, calls |-> r.calls,
           ev |-> <<"cursor_open", "cursor_close">>]

FlushDBImpl(b, t, F) ==
  IF b = "lmdb" THEN LmdbFlushDBImpl(t, F) ELSE UpsFlushDBImpl(t, F)

(***************************************************************************)
(* NativeHandle, Config and the environment on disk.  A table reference    *)
(* (an MDB_dbi, an ups_db_t) is the name of the table it designates when   *)
(* valid; dbir == 0 and a dbi whose opening transaction did not commit     *)
(* designate no table.                                                     *)
(***************************************************************************)
NULL == <<>>

\* table names handed to SELECT: "1", "02", "x"
NameSpace == { <<49>>, <<48, 50>>, <<120>> }

\* the names under which the environment keeps its tables: the above and "2"
TableNames == NameSpace \cup { <<50>> }

DefaultName == <<49>>          \* Config::db_name
DefaultNum == 1                \* Config::dbnum

NoRef == [valid |-> FALSE, name |-> NULL]
Ref(name) == [valid |-> TRUE, name |-> name]

NullHandle == [ptr |-> "null", dbir |-> NoRef, db_name |-> NULL, db |-> NoRef, cur_db |-> 0]

NoTable == [exists |-> FALSE, rows |-> <<>>]
EmptyTable == [exists |-> TRUE, rows |-> <<>>]

\* common::ConvertFromString(name, &num) into uint16_t and common::ConvertToString(num)
IsNumber(name) == name # <<>> /\ \A i \in 1..Len(name) : name[i] \in 48..57

RECURSIVE ToNumber(_)
ToNumber(name) ==
  IF name = <<>> THEN 0
  ELSE 10 * ToNumber(SubSeq(name, 1, Len(name) - 1)) + (name[Len(name)] - 48)

ConvertFromString(name) ==
  IF IsNumber(name) /\ ToNumber(name) < 65536
  THEN [ok |-> TRUE, num |-> ToNumber(name)]
  ELSE [ok |-> FALSE, num |-> 0]

RECURSIVE ConvertToString(_)
ConvertToString(num) ==
  IF num < 10 THEN << 48 + num >>
  ELSE ConvertToString(num \div 10) \o << 48 + (num % 10) >>

\* the open table goes back to the environment when its reference is given up
SaveOpen(st, ref, t) ==
  IF ref.valid THEN [st EXCEPT !.tabs[ref.name].rows = t] ELSE st

(***************************************************************************)
(* lmdb_select / lmdb_open / lmdb_close and the allocator traits           *)
(***************************************************************************)
\* every select begins a transaction and opens the table again
lmdb_selectEager(h, db_name, st, t, F, n) ==
  IF h.ptr = "null" \/ db_name = NULL
  THEN [rc |-> "EINVAL", handle |-> h, store |-> st, table |-> t, calls |-> n, ev |-> <<>>]
  ELSE IF Failed(F, n + 1)
  THEN [rc |-> MDB_FAIL, handle |-> h, store |-> st, table |-> t, calls |-> n + 1, ev |-> <<>>]
  ELSE IF Failed(F, n + 2)
  THEN [rc |-> MDB_FAIL, handle |-> h, store |-> st, table |-> t, calls |-> n + 2,
        ev |-> <<"txn_begin", "txn_abort">>]
  ELSE LET saved == SaveOpen(st, h.dbir, t)
       IN IF Failed(F, n + 3)
          THEN [rc |-> LMDB_OK,
                handle |-> [h EXCEPT !.dbir = NoRef, !.db_name = db_name],
                store |-> saved, table |-> <<>>, calls |-> n + 3,
                ev |-> <<"txn_begin", "dbi_open", "txn_commit_failed", "dbi_close">>]
          ELSE [rc |-> LMDB_OK,
                handle |-> [h EXCEPT !.dbir = Ref(db_name), !.db_name = db_name],
                store |-> [saved EXCEPT !.tabs[db_name].exists = TRUE],
                table |-> saved.tabs[db_name].rows, calls |-> n + 3,
                ev |-> <<"txn_begin", "dbi_open", "txn_commit", "dbi_close">>]

lmdb_select(h, db_name, st, t, F, n) ==
  IF h.ptr = "null" \/ db_name = NULL                   \* only for named dbs
  THEN [rc |-> "EINVAL", handle |-> h, store |-> st, table |-> t, calls |-> n, ev |-> <<>>]
  ELSE IF h.db_name # NULL /\ db_name = h.db_name       \* lazy select
  THEN [rc |-> LMDB_OK, handle |-> h, store |-> st, table |-> t, calls |-> n, ev |-> <<>>]
  ELSE IF Failed(F, n + 1)                              \* mdb_txn_begin
  THEN [rc |-> MDB_FAIL, handle |-> h, store |-> st, table |-> t, calls |-> n + 1, ev |-> <<>>]
  ELSE IF Failed(F, n + 2)                              \* mdb_dbi_open(MDB_CREATE); mdb_txn_abort
  THEN [rc |-> MDB_FAIL, handle |-> h, store |-> st, table |-> t, calls |-> n + 2,
        ev |-> <<"txn_begin", "txn_abort">>]
  ELSE LET saved == SaveOpen(st, h.dbir, t)             \* mdb_dbi_close of the old reference
       IN IF Failed(F, n + 3)                           \* mdb_txn_commit, result not looked at
          THEN [rc |-> LMDB_OK,
                handle |-> [h EXCEPT !.dbir = NoRef, !.db_name = db_name],
                store |-> saved, table |-> <<>>, calls |-> n + 3,
                ev |-> <<"txn_begin", "dbi_open", "txn_commit_failed", "dbi_close">>]
          ELSE [rc |-> LMDB_OK,
                handle |-> [h EXCEPT !.dbir = Ref(db_name), !.db_name = db_name],
                store |-> [saved EXCEPT !.tabs[db_name].exists = TRUE],
                table |-> saved.tabs[db_name].rows, calls |-> n + 3,
                ev |-> <<"txn_begin", "dbi_open", "txn_commit", "dbi_close">>]

lmdb_open(F, n) ==
  IF Failed(F, n + 1)                                   \* mdb_env_create
  THEN [rc |-> MDB_FAIL, context |-> NullHandle, calls |-> n + 1, ev |-> <<>>]
  ELSE IF Failed(F, n + 2)                              \* mdb_env_set_maxdbs
  THEN [rc |-> MDB_FAIL, context |-> NullHandle, calls |-> n + 2, ev |-> <<"env_create">>]
  ELSE IF Failed(F, n + 3)                              \* mdb_env_open
  THEN [rc |-> MDB_FAIL, context |-> NullHandle, calls |-> n + 3, ev |-> <<"env_create">>]
  ELSE [rc |-> LMDB_OK, context |-> [NullHandle EXCEPT !.ptr = "context"], calls |-> n + 3,
        ev |-> <<"env_create">>]

\* the handle is closed whether or not there is one
lmdb_closeUnchecked(h, st, t) ==
  [handle |-> NullHandle, store |-> SaveOpen(st, h.dbir, t), table |-> <<>>,
   ev |-> <<"dbi_close", "env_close">>]

lmdb_close(h, st, t) ==
  IF h.ptr = "null"
  THEN [handle |-> h, store |-> st, table |-> t, ev |-> <<>>]
  ELSE [handle |-> NullHandle, store |-> SaveOpen(st, h.dbir, t), table |-> <<>>,
        ev |-> <<"dbi_close", "env_close">>]

\* lmdb_open is called whatever the path is
LmdbCreateConnectionAnyLayout(is_dir, is_single_file, F) ==
  LET o == lmdb_open(F, 0)
  IN IF o.rc # LMDB_OK
     THEN [err |-> <<"CONNECT", "Fail open database">>, context |-> NullHandle,
           calls |-> o.calls, ev |-> o.ev]
     ELSE [err |-> NoError, context |-> o.context, calls |-> o.calls, ev |-> o.ev]

\* lmdb::CreateConnection: the layout of the path, then lmdb_open
LmdbCreateConnection(is_dir, is_single_file, F) ==
  IF is_dir = "SUCCESS" /\ is_single_file               \* if dir but want single file
  THEN [err |-> <<"CONNECT", "Invalid input path">>, context |-> NullHandle, calls |-> 0, ev |-> <<>>]
  ELSE IF is_dir = "FAIL" /\ ~is_single_file            \* if file but want dir
  THEN [err |-> <<"CONNECT", "Invalid input path">>, context |-> NullHandle, calls |-> 0, ev |-> <<>>]
  ELSE LET o == lmdb_open(F, 0)
       IN IF o.rc # LMDB_OK
          THEN [err |-> <<"CONNECT", "Fail open database">>, context |-> NullHandle,
                calls |-> o.calls, ev |-> o.ev]
          ELSE [err |-> NoError, context |-> o.context, calls |-> o.calls, ev |-> o.ev]

(***************************************************************************)
(* upscaledb_select / upscaledb_open / upscaledb_close                     *)
(***************************************************************************)
upscaledb_select(h, num, st, t, F, n) ==
  IF h.ptr = "null"
  THEN [rc |-> "EINVAL", handle |-> h, store |-> st, table |-> t, calls |-> n, ev |-> <<>>]
  ELSE IF h.cur_db = num                                \* lazy select
  THEN [rc |-> UPS_SUCCESS, handle |-> h, store |-> st, table |-> t, calls |-> n, ev |-> <<>>]
  ELSE LET nm == ConvertToString(num)
           found == nm \in TableNames /\ st.tabs[nm].exists
       IN IF Failed(F, n + 1) \/ ~found                 \* ups_env_open_db
          THEN [rc |-> IF Failed(F, n + 1) THEN UPS_FAIL ELSE "UPS_DATABASE_NOT_FOUND",
                handle |-> h, store |-> st, table |-> t, calls |-> n + 1, ev |-> <<>>]
          ELSE LET saved == SaveOpen(st, h.db, t)       \* ups_db_close of the old reference
               IN [rc |-> UPS_SUCCESS,
                   handle |-> [h EXCEPT !.db = Ref(nm), !.cur_db = num],
                   store |-> saved, table |-> saved.tabs[nm].rows, calls |-> n + 1,
                   ev |-> <<"db_open", "db_close">>]

upscaledb_open(db, create_if_missing, st, F, n) ==
  LET need_to_create == create_if_missing /\ ~st.file
      nm == ConvertToString(db)
  IN IF Failed(F, n + 1) \/ (~need_to_create /\ ~st.file)      \* ups_env_create / ups_env_open
     THEN [rc |-> UPS_FAIL, context |-> NullHandle, store |-> st, calls |-> n + 1, ev |-> <<>>]
     ELSE LET st1 == [st EXCEPT !.file = TRUE]
              found == nm \in TableNames /\ st.tabs[nm].exists
          IN IF Failed(F, n + 2) \/ (~need_to_create /\ ~found) \* ups_env_create_db / ups_env_open_db
             THEN [rc |-> UPS_FAIL, context |-> NullHandle, store |-> st1, calls |-> n + 2,
                   ev |-> <<"env_create">>]
             ELSE [rc |-> UPS_SUCCESS,
                   context |-> [NullHandle EXCEPT !.ptr = "context", !.db = Ref(nm), !.cur_db = db],
                   store |-> [st1 EXCEPT !.tabs[nm].exists = TRUE], calls |-> n + 2,
                   ev |-> <<"env_create", "db_open">>]

upscaledb_close(h, st, t) ==
  IF h.ptr = "null"
  THEN [handle |-> h, store |-> st, table |-> t, ev |-> <<>>]
  ELSE [handle |-> NullHandle, store |-> SaveOpen(st, h.db, t), table |-> <<>>,
        ev |-> <<"db_close", "env_close">>]

\* upscaledb::CreateConnection: the folder of the path, then upscaledb_open
UpsCreateConnection(is_dir, create_if_missing, st, F) ==
  IF is_dir # "SUCCESS"
  THEN [err |-> <<"CONNECT", "Invalid input path">>, context |-> NullHandle, store |-> st,
        calls |-> 0, ev |-> <<>>]
  ELSE LET o == upscaledb_open(DefaultNum, create_if_missing, st, F, 0)
       IN IF o.rc # UPS_SUCCESS
          THEN [err |-> <<"CONNECT", "Fail open database">>, context |-> NullHandle,
                store |-> o.store, calls |-> o.calls, ev |-> o.ev]
          ELSE [err |-> NoError, context |-> o.context, store |-> o.store, calls |-> o.calls,
                ev |-> o.ev]

(***************************************************************************)
(* ConnectionAllocatorTraits: Connect, Disconnect, IsConnected             *)
(***************************************************************************)
\* *hout is assigned only when CreateConnection returned no error
TraitsConnect(b, is_dir, flag, st, F) ==
  IF b = "lmdb"
  THEN LET c == LmdbCreateConnection(is_dir, flag, F)
       IN [err |-> c.err, hout |-> c.context, store |-> [st EXCEPT !.file = (c.err = NoError) \/ @],
           calls |-> c.calls, ev |-> c.ev]
  ELSE LET c == UpsCreateConnection(is_dir, flag, st, F)
       IN [err |-> c.err, hout |-> c.context, store |-> c.store, calls |-> c.calls, ev |-> c.ev]

TraitsDisconnect(b, h, st, t) ==
  IF b = "lmdb" THEN lmdb_close(h, st, t) ELSE upscaledb_close(h, st, t)

\* a handle is taken for connected whatever it is
IsConnectedAlways(h) == TRUE

IsConnected(h) == IF h.ptr = "null" THEN FALSE ELSE TRUE

(***************************************************************************)
(* GetCurrentDBName, SelectImpl, ConfigGetDatabases, Disconnect            *)
(***************************************************************************)
\* the table the handle has open, NULL when it has none
OpenTable(b, h) ==
  LET ref == IF b = "lmdb" THEN h.dbir ELSE h.db
  IN IF IsConnected(h) /\ ref.valid THEN ref.name ELSE NULL

TableOpen(b, h) == OpenTable(b, h) # NULL

GetCurrentDBName(b, h, conf) ==
  IF b = "lmdb"
  THEN IF IsConnected(h)
       THEN (IF h.db_name # NULL THEN h.db_name ELSE conf.db_name)
       ELSE NULL                                        \* DNOTREACHED
  ELSE IF h.ptr # "null" THEN ConvertToString(h.cur_db)
       ELSE NULL                                        \* DNOTREACHED

NoInfo == [name |-> NULL, exists |-> FALSE, kcount |-> 0]

\* DBkcount as SelectImpl calls it: on a reference that designates no table
\* mdb_cursor_open answers EINVAL
LmdbSelectCount(h, t, F, n) ==
  IF h.dbir.valid THEN LmdbDBkcountImpl(t, F, n)
  ELSE IF Failed(F, n + 1)
  THEN [err |-> LmdbCheckResultCommand("DBKCOUNT", MDB_FAIL), size |-> 0, calls |-> n + 1,
        ev |-> <<>>]
  ELSE [err |-> LmdbCheckResultCommand("DBKCOUNT", "EINVAL"), size |-> 0, calls |-> n + 2,
        ev |-> <<"txn_begin", "txn_abort">>]

\* the key count of the table that was open before is the one reported
LmdbSelectImplCached(h, conf, st, t, name, F) ==
  LET s == lmdb_select(h, name, st, t, F, 0)
  IN IF s.rc # LMDB_OK
     THEN [err |-> LmdbCheckResultCommand("SELECT", s.rc), handle |-> h, config |-> conf,
           store |-> st, table |-> t, info |-> NoInfo, calls |-> s.calls, sel_calls |-> s.calls,
           sel_ev |-> s.ev, ev |-> s.ev]
     ELSE LET c == LmdbSelectCount(s.handle, t, F, s.calls)
          IN [err |-> NoError, handle |-> s.handle,
              config |-> [conf EXCEPT !.db_name = name],
              store |-> s.store, table |-> s.table,
              info |-> [name |-> name, exists |-> TRUE,
                        kcount |-> IF c.err = NoError THEN c.size ELSE 0],
              calls |-> c.calls, sel_calls |-> s.calls, sel_ev |-> s.ev, ev |-> s.ev \o c.ev]

LmdbSelectImpl(h, conf, st, t, name, F) ==
  LET s == lmdb_select(h, name, st, t, F, 0)
  IN IF s.rc # LMDB_OK
     THEN [err |-> LmdbCheckResultCommand("SELECT", s.rc), handle |-> h, config |-> conf,
           store |-> st, table |-> t, info |-> NoInfo, calls |-> s.calls, sel_calls |-> s.calls,
           sel_ev |-> s.ev, ev |-> s.ev]
     ELSE LET c == LmdbSelectCount(s.handle, s.table, F, s.calls)   \* DCHECK(!err)
          IN [err |-> NoError, handle |-> s.handle,
              config |-> [conf EXCEPT !.db_name = name],
              store |-> s.store, table |-> s.table,
              info |-> [name |-> name, exists |-> TRUE,
                        kcount |-> IF c.err = NoError THEN c.size ELSE 0],
              calls |-> c.calls, sel_calls |-> s.calls, sel_ev |-> s.ev, ev |-> s.ev \o c.ev]

UpsSelectImpl(h, conf, st, t, name, F) ==
  LET cv == ConvertFromString(name)
  IN IF ~cv.ok
     THEN [err |-> <<"SELECT", "EINVAL">>, handle |-> h, config |-> conf, store |-> st,
           table |-> t, info |-> NoInfo, calls |-> 0, sel_calls |-> 0, sel_ev |-> <<>>,
           ev |-> <<>>]
     ELSE LET s == upscaledb_select(h, cv.num, st, t, F, 0)
          IN IF s.rc # UPS_SUCCESS
             THEN [err |-> <<"SELECT", s.rc>>, handle |-> h, config |-> conf, store |-> st,
                   table |-> t, info |-> NoInfo, calls |-> s.calls, sel_calls |-> s.calls,
                   sel_ev |-> s.ev, ev |-> s.ev]
             ELSE LET c == UpsDBkcountImpl(s.table, F, s.calls)     \* DCHECK(!err)
                  IN [err |-> NoError, handle |-> s.handle, config |-> conf,
                      store |-> s.store, table |-> s.table,
                      info |-> [name |-> name, exists |-> TRUE,
                                kcount |-> IF c.err = NoError THEN c.size ELSE 0],
                      calls |-> c.calls, sel_calls |-> s.calls, sel_ev |-> s.ev,
                      ev |-> s.ev \o c.ev]

SelectImpl(b, h, conf, st, t, name, F) ==
  IF b = "lmdb" THEN LmdbSelectImpl(h, conf, st, t, name, F)
  ELSE UpsSelectImpl(h, conf, st, t, name, F)

\* the names of the tables of the environment, in key order
RECURSIVE SortedNames(_)
SortedNames(S) ==
  IF S = {} THEN <<>>
  ELSE LET m == CHOOSE x \in S : \A y \in S \ {x} : StrLess(x, y)
       IN <<m>> \o SortedNames(S \ {m})

ExistingNames(st) == SortedNames({ nm \in TableNames : st.tabs[nm].exists })

RECURSIVE LmdbNamesLoop(_, _, _, _)
\* while ((mdb_cursor_get(cursor, &key, &data, MDB_NEXT) == LMDB_OK)) { dbs->push_back(skey); }
LmdbNamesLoop(names, i, F, n) ==
  IF i > Len(names) \/ Failed(F, n + 1) THEN [dbs |-> SubSeq(names, 1, i - 1), calls |-> n + 1]
  ELSE LmdbNamesLoop(names, i + 1, F, n + 1)

\* the first transaction is still open when the second one begins
LmdbConfigGetDatabasesNested(st, F) ==
  IF Failed(F, 1)
  THEN [err |-> LmdbCheckResultCommand("CONFIG GET DATABASES", MDB_FAIL), dbs |-> <<>>,
        calls |-> 1, ev |-> <<>>]
  ELSE IF Failed(F, 2)
  THEN [err |-> LmdbCheckResultCommand("CONFIG GET DATABASES", MDB_FAIL), dbs |-> <<>>,
        calls |-> 2, ev |-> <<"txn_begin", "txn_abort">>]
  ELSE IF Failed(F, 3)
  THEN [err |-> LmdbCheckResultCommand("CONFIG GET DATABASES", MDB_FAIL), dbs |-> <<>>,
        calls |-> 3, ev |-> <<"txn_begin", "dbi_open", "txn_abort", "dbi_close">>]
  ELSE IF Failed(F, 4)
  THEN [err |-> LmdbCheckResultCommand("CONFIG GET DATABASES", MDB_FAIL), dbs |-> <<>>,
        calls |-> 4,
        ev |-> <<"txn_begin", "dbi_open", "txn_begin", "txn_abort", "txn_abort", "dbi_close">>]
  ELSE LET r == LmdbNamesLoop(ExistingNames(st), 1, F, 4)
       IN [err |-> NoError, dbs |-> r.dbs, calls |-> r.calls,
           ev |-> <<"txn_begin", "dbi_open", "txn_begin", "cursor_open",
                    "cursor_close", "txn_abort", "txn_abort", "dbi_close">>]

LmdbConfigGetDatabases(st, F) ==
  IF Failed(F, 1)                                       \* mdb_txn_begin
  THEN [err |-> LmdbCheckResultCommand("CONFIG GET DATABASES", MDB_FAIL), dbs |-> <<>>,
        calls |-> 1, ev |-> <<>>]
  ELSE IF Failed(F, 2)                                  \* mdb_dbi_open(txn, NULL); mdb_txn_abort
  THEN [err |-> LmdbCheckResultCommand("CONFIG GET DATABASES", MDB_FAIL), dbs |-> <<>>,
        calls |-> 2, ev |-> <<"txn_begin", "txn_abort">>]
  ELSE IF Failed(F, 3)                                  \* mdb_txn_begin of txn_dbs
  THEN [err |-> LmdbCheckResultCommand("CONFIG GET DATABASES", MDB_FAIL), dbs |-> <<>>,
        calls |-> 3, ev |-> <<"txn_begin", "dbi_open", "txn_abort", "dbi_close">>]
  ELSE IF Failed(F, 4)                                  \* mdb_cursor_open
  THEN [err |-> LmdbCheckResultCommand("CONFIG GET DATABASES", MDB_FAIL), dbs |-> <<>>,
        calls |-> 4,
        ev |-> <<"txn_begin", "dbi_open", "txn_abort", "txn_begin", "txn_abort", "dbi_close">>]
  ELSE LET r == LmdbNamesLoop(ExistingNames(st), 1, F, 4)
       IN [err |-> NoError, dbs |-> r.dbs, calls |-> r.calls,
           ev |-> <<"txn_begin", "dbi_open", "txn_abort", "txn_begin", "cursor_open",
                    "cursor_close", "txn_abort", "dbi_close">>]

UpsConfigGetDatabasesImpl(h, conf) ==
  [err |-> NoError, dbs |-> << GetCurrentDBName("upscaledb", h, conf) >>, calls |-> 0, ev |-> <<>>]

ConfigGetDatabasesImpl(b, h, conf, st, F) ==
  IF b = "lmdb" THEN LmdbConfigGetDatabases(st, F) ELSE UpsConfigGetDatabasesImpl(h, conf)

\* CDBConnection::Connect: the allocator's Connect; the handle and the
\* config are kept when it returned no error
BaseConnect(b, h, conf, new_conf, is_dir, flag, st, F) ==
  LET c == TraitsConnect(b, is_dir, flag, st, F)
  IN [err |-> c.err,
      handle |-> IF c.err = NoError THEN c.hout ELSE h,
      config |-> IF c.err = NoError THEN new_conf ELSE conf,
      store |-> c.store, calls |-> c.calls, ev |-> c.ev]

\* CDBConnection::Disconnect: the allocator's Disconnect on handle_
BaseDisconnect(b, h, st, t) ==
  LET d == TraitsDisconnect(b, h, st, t)
  IN [err |-> NoError, handle |-> d.handle, store |-> d.store, table |-> d.table, ev |-> d.ev,
      deref |-> FALSE, dead |-> FALSE]

\* lmdb::DBConnection has no Disconnect of its own.  upscaledb::DBConnection
\* writes handle_->cur_db first: with handle_ null the write is undefined, the
\* process takes a fault (outcome "fault") or goes on (outcome "elided").
DBConnectionDisconnect(b, h, st, t, outcome) ==
  IF b = "lmdb" THEN BaseDisconnect(b, h, st, t)
  ELSE IF h.ptr = "null"
       THEN IF outcome = "fault"
            THEN [err |-> <<"DISCONNECT", "SIGSEGV">>, handle |-> h, store |-> st, table |-> t,
                  ev |-> <<>>, deref |-> TRUE, dead |-> TRUE]
            ELSE [BaseDisconnect(b, h, st, t) EXCEPT !.deref = TRUE]
       ELSE BaseDisconnect(b, [h EXCEPT !.cur_db = 0], st, t)

QuitImpl(b, h, st, t, outcome) == DBConnectionDisconnect(b, h, st, t, outcome)

\* a data command of LMDB on a reference that designates no table: the
\* native call that takes the dbi answers EINVAL and the transaction is aborted
LmdbNoTable(op, F) ==
  IF Failed(F, 1)                                       \* mdb_txn_begin
  THEN [err |-> LmdbCheckResultCommand(op, MDB_FAIL), calls |-> 1, ev |-> <<>>]
  ELSE [err |-> LmdbCheckResultCommand(op, "EINVAL"), calls |-> 2,
        ev |-> <<"txn_begin", "txn_abort">>]

\* the time-to-live values a caller passes
TtlSpace == { 0, 1 }

\* the answer of both TTL handlers of LMDB
NotSupportedTTL == <<"TTL", "Sorry, but now FastoNoSQL for LMDB not supported TTL commands.">>

\* a handler that stores nothing and reports success
LmdbSetTTLImplSucceeds(t, key, ttl) ==
  [table |-> t, err |-> NoError, calls |-> 0, ev |-> <<>>]

\* lmdb DBConnection::SetTTLImpl: key and ttl are unused
LmdbSetTTLImpl(t, key, ttl) ==
  [table |-> t, err |-> NotSupportedTTL, calls |-> 0, ev |-> <<>>]

\* lmdb DBConnection::GetTTLImpl: key is unused, *ttl is not written
LmdbGetTTLImpl(t, key) ==
  [table |-> t, err |-> NotSupportedTTL, calls |-> 0, ev |-> <<>>]

(***************************************************************************)
(* The command registry of upscaledb: for each command the two argument    *)
(* counts it is declared with, the required and the optional arguments.    *)
(***************************************************************************)
MaxArgc == 8                   \* the most arguments of an invocation

INFINITE_COMMAND_ARGS == 255

Arity(required, optional) == [required |-> required, optional |-> optional]

\* SCAN is declared with three optional arguments
g_commandsShortScan ==
  [g \in {"HELP", "INFO", "CONFIG GET", "SCAN", "KEYS", "DBKCOUNT", "FLUSHDB", "SELECTDB",
          "SET", "GET", "RENAME", "DELETE", "QUIT"} |->
     CASE g \in {"HELP", "INFO", "FLUSHDB"} -> Arity(0, 1)
       [] g \in {"CONFIG GET", "SELECTDB", "GET"} -> Arity(1, 0)
       [] g = "SCAN" -> Arity(1, 3)
       [] g = "KEYS" -> Arity(3, 0)
       [] g \in {"DBKCOUNT", "QUIT"} -> Arity(0, 0)
       [] g \in {"SET", "RENAME"} -> Arity(2, 0)
       [] g = "DELETE" -> Arity(1, INFINITE_COMMAND_ARGS)]

\* g_commands: the sixth and seventh argument of each CommandHolder
g_commands ==
  [g \in {"HELP", "INFO", "CONFIG GET", "SCAN", "KEYS", "DBKCOUNT", "FLUSHDB", "SELECTDB",
          "SET", "GET", "RENAME", "DELETE", "QUIT"} |->
     CASE g \in {"HELP", "INFO", "FLUSHDB"} -> Arity(0, 1)
       [] g \in {"CONFIG GET", "SELECTDB", "GET"} -> Arity(1, 0)
       [] g = "SCAN" -> Arity(1, 4)
       [] g = "KEYS" -> Arity(3, 0)
       [] g \in {"DBKCOUNT", "QUIT"} -> Arity(0, 0)
       [] g \in {"SET", "RENAME"} -> Arity(2, 0)
       [] g = "DELETE" -> Arity(1, INFINITE_COMMAND_ARGS)]

\* CommandInfo::MinArgumentsCount and MaxArgumentsCount
MinArgumentsCount(cmd) == cmd.required

MaxArgumentsCount(cmd) ==
  IF cmd.optional = INFINITE_COMMAND_ARGS THEN INFINITE_COMMAND_ARGS
  ELSE cmd.required + cmd.optional

\* the test of the argument count before a handler is called
ArityAccepted(cmd, argc) ==
  /\ argc >= MinArgumentsCount(cmd)
  /\ argc <= MaxArgumentsCount(cmd)

(***************************************************************************)
(* ConnectionSettingsFactory: a settings object out of its text            *)
(* "type,path,loggingIntervalMs,commandline[,sshinfo]".  A settings object *)
(* is the record of what its setters were given; the _set fields tell      *)
(* which setters were called.                                              *)
(***************************************************************************)
MaxFields == 5                 \* the fields after the type in an input

COMMA == 44

\* enum connectionTypes
REDIS == 0
MEMCACHED == 1
SSDB == 2
LEVELDB == 3
ROCKSDB == 4
UNQLITE == 5
LMDB == 6
UPSCALEDB == 7

\* no settings object
nullptr ==
  [valid |-> FALSE, type |-> 0, path |-> <<>>, path_set |-> FALSE, ms |-> 0, ms_set |-> FALSE,
   cmd |-> <<>>, cmd_set |-> FALSE, ssh |-> <<>>, ssh_set |-> FALSE]

\* IsRemoteType: the backends reached over a network
IsRemoteType(type) == type \in { REDIS, MEMCACHED, SSDB }

\* dynamic_cast<IConnectionSettingsRemoteSSH*>: the settings classes that take SSH info
IsRemoteSSH(type) == type = REDIS

\* common::ConvertFromString<uint32_t>
ConvertFromStringU32(text) ==
  IF IsNumber(text) /\ ToNumber(text) \div 65536 < 65536 THEN ToNumber(text) ELSE 0

\* CreateFromType(type, connection_path_t()): a class for each built-in type
CreateFromType(type) ==
  IF type \in { REDIS, MEMCACHED, SSDB, LEVELDB, ROCKSDB, UNQLITE, LMDB, UPSCALEDB }
  THEN [nullptr EXCEPT !.valid = TRUE, !.type = type]
  ELSE nullptr

\* val.substr(pos), pos counted from 0
Substr(s, pos) == SubSeq(s, pos + 1, Len(s))

\* elText[0] - 48; the character behind an empty string is '\0'
TypeOf(elText) == (IF elText = <<>> THEN 0 ELSE elText[1]) - 48

\* the third comma of a local backend is taken for one more separator
AtThirdCommaKeepsSplitting(res, elText, s, i) ==
  [result |-> [res EXCEPT !.ms = ConvertFromStringU32(elText), !.ms_set = TRUE],
   stop |-> FALSE]

\* commaCount == 2: the logging interval, and for a local backend the whole
\* remainder as the command line; i is the index of the comma, from 0
AtThirdComma(res, elText, s, i) ==
  LET timed == [res EXCEPT !.ms = ConvertFromStringU32(elText), !.ms_set = TRUE]
  IN IF ~IsRemoteType(timed.type)
     THEN [result |-> [timed EXCEPT !.cmd = Substr(s, i + 1), !.cmd_set = TRUE], stop |-> TRUE]
     ELSE [result |-> timed, stop |-> FALSE]

\* every settings object is given the remainder as SSH info
AtFourthCommaAlwaysSSH(res, elText, s, i) ==
  [res EXCEPT !.cmd = elText, !.cmd_set = TRUE, !.ssh = Substr(s, i + 1), !.ssh_set = TRUE]

\* commaCount == 3: the command line, and the remainder as SSH info when the
\* settings object takes one
AtFourthComma(res, elText, s, i) ==
  LET lined == [res EXCEPT !.cmd = elText, !.cmd_set = TRUE]
  IN IF IsRemoteSSH(lined.type)
     THEN [lined EXCEPT !.ssh = Substr(s, i + 1), !.ssh_set = TRUE]
     ELSE lined

\* the loop over the characters of val; i counts from 0
RECURSIVE CreateFromStringLoop(_, _, _, _, _)
CreateFromStringLoop(s, i, commaCount, elText, res) ==
  IF i >= Len(s) THEN res
  ELSE IF s[i + 1] # COMMA
  THEN CreateFromStringLoop(s, i + 1, commaCount, elText \o << s[i + 1] >>, res)
  ELSE IF commaCount = 0
  THEN LET made == CreateFromType(TypeOf(elText))
       IN IF ~made.valid THEN nullptr
          ELSE CreateFromStringLoop(s, i + 1, 1, <<>>, made)
  ELSE IF commaCount = 1
  THEN CreateFromStringLoop(s, i + 1, 2, <<>>,
                            [res EXCEPT !.path = elText, !.path_set = TRUE])
  ELSE IF commaCount = 2
  THEN LET third == AtThirdComma(res, elText, s, i)
       IN IF third.stop THEN third.result
          ELSE CreateFromStringLoop(s, i + 1, 3, <<>>, third.result)
  ELSE AtFourthComma(res, elText, s, i)

\* ConnectionSettingsFactory::CreateFromString
CreateFromString(s) ==
  IF s = <<>> THEN nullptr ELSE CreateFromStringLoop(s, 0, 0, <<>>, nullptr)

(***************************************************************************)
(* State: the backend the connection was built for, the table behind the   *)
(* open handle, the last command with its arguments and results, and the   *)
(* caller's running SCAN pagination.                                       *)
(***************************************************************************)
NoCommand ==
  [op |-> "NONE", key |-> <<>>, key2 |-> <<>>, value |-> <<>>, keys |-> <<>>,
   cursor_in |-> 0, pattern |-> <<>>, count |-> 0, pre |-> <<>>,
   err |-> NoError, val |-> <<>>, keys_out |-> <<>>, cursor_out |-> 0, hits |-> 0,
   size |-> 0, ev |-> <<>>, name |-> NULL, info |-> NoInfo, hpre |-> NullHandle,
   cpre |-> NULL, sel_hits |-> 0, sel_ev |-> <<>>, deref |-> FALSE, dead |-> FALSE,
   is_dir |-> "SUCCESS", flag |-> FALSE, open_calls |-> 0, ttl |-> 0,
   command |-> "", argc |-> 0, ran |-> FALSE]

NoChain == [active |-> FALSE, pattern |-> <<>>, count |-> 0, cursor |-> 0,
            pages |-> <<>>, sizes |-> <<>>, done |-> FALSE]

KeyLists == UNION { [1..n -> KeySpace] : n \in 1..MaxDelKeys }

DefaultConfig == [db_name |-> DefaultName, dbnum |-> DefaultNum]

\* an environment without a file, and one that holds the tables "1" and "2"
FreshStore == [file |-> FALSE, tabs |-> [nm \in TableNames |-> NoTable]]
FilledStore ==
  [file |-> TRUE,
   tabs |-> [nm \in TableNames |-> IF nm \in { <<49>>, <<50>> } THEN EmptyTable ELSE NoTable]]

\* the handle of a connection whose default table is open
SelectedHandle(b) ==
  IF b = "lmdb"
  THEN [NullHandle EXCEPT !.ptr = "context", !.dbir = Ref(DefaultName), !.db_name = DefaultName]
  ELSE [NullHandle EXCEPT !.ptr = "context", !.db = Ref(DefaultName), !.cur_db = DefaultNum]

\* the data commands start from a connection that is open on its default
\* table, which is empty
Init ==
  /\ backend \in Backends
  /\ table = <<>>
  /\ last = NoCommand
  /\ chain = NoChain
  /\ handle = SelectedHandle(backend)
  /\ config = DefaultConfig
  /\ store = [FreshStore EXCEPT !.file = TRUE, !.tabs[DefaultName] = EmptyTable]
  /\ val = <<>>
  /\ result = nullptr

\* the connection as constructed: no handle yet
InitConn ==
  /\ backend \in Backends
  /\ table = <<>>
  /\ last = NoCommand
  /\ chain = NoChain
  /\ handle = NullHandle
  /\ config = DefaultConfig
  /\ store \in { FreshStore, FilledStore }
  /\ val = <<>>
  /\ result = nullptr

\* SET <key> <value>
Set(key, value, F) ==
  LET r == SetImpl(backend, table, key, value, F)
  IN /\ last.op = "NONE"
     /\ TableOpen(backend, handle)
     /\ table' = r.table
     /\ last' = [NoCommand EXCEPT !.op = "SET", !.key = key, !.value = value, !.pre = table,
                                  !.err = r.err, !.hits = Hits(F, r.calls), !.ev = r.ev]
     /\ chain' = NoChain
     /\ UNCHANGED <<val, result, backend, handle, config, store>>

\* GET <key>
Get(key, F) ==
  LET r == GetImpl(backend, table, key, F)
  IN /\ last.op = "NONE"
     /\ TableOpen(backend, handle)
     /\ last' = [NoCommand EXCEPT !.op = "GET", !.key = key, !.pre = table,
                                  !.err = r.err, !.val = r.val, !.hits = Hits(F, r.calls), !.ev = r.ev]
     /\ chain' = NoChain
     /\ UNCHANGED <<val, result, backend, table, handle, config, store>>

\* DEL <key> [key ...]
Delete(keys, F) ==
  LET r == DeleteImpl(backend, table, keys, F)
  IN /\ last.op = "NONE"
     /\ TableOpen(backend, handle)
     /\ table' = r.table
     /\ last' = [NoCommand EXCEPT !.op = "DEL", !.keys = keys, !.pre = table,
                                  !.err = r.err, !.keys_out = r.deleted_keys,
                                  !.hits = Hits(F, r.calls), !.ev = r.ev]
     /\ chain' = NoChain
     /\ UNCHANGED <<val, result, backend, handle, config, store>>

\* RENAME <key> <newkey>
Rename(key, new_key, F) ==
  LET r == RenameImpl(backend, table, key, new_key, F)
  IN /\ last.op = "NONE"
     /\ TableOpen(backend, handle)
     /\ table' = r.table
     /\ last' = [NoCommand EXCEPT !.op = "RENAME", !.key = key, !.key2 = new_key, !.pre = table,
                                  !.err = r.err, !.hits = Hits(F, r.calls), !.ev = r.ev]
     /\ chain' = NoChain
     /\ UNCHANGED <<val, result, backend, handle, config, store>>

\* one call of ScanImpl and what it leaves in last
ScanCall(cursor_in, pattern, count_keys, F) ==
  LET r == ScanImpl(backend, table, cursor_in, pattern, count_keys, F)
  IN /\ last.op = "NONE"
     /\ TableOpen(backend, handle)
     /\ last' = [NoCommand EXCEPT !.op = "SCAN", !.cursor_in = cursor_in, !.pattern = pattern,
                                  !.count = count_keys, !.pre = table, !.err = r.err,
                                  !.keys_out = r.keys_out, !.cursor_out = r.cursor_out,
                                  !.hits = Hits(F, r.calls), !.ev = r.ev]
     /\ UNCHANGED <<val, result, backend, table, handle, config, store>>

\* SCAN <cursor> [MATCH pattern] [COUNT count]
Scan(cursor_in, pattern, count_keys, F) ==
  /\ ScanCall(cursor_in, pattern, count_keys, F)
  /\ chain' = NoChain

\* KEYS <key_start> <key_end> <limit>
Keys(key_start, key_end, limit, F) ==
  LET r == KeysImpl(backend, table, key_start, key_end, limit, F)
  IN /\ last.op = "NONE"
     /\ TableOpen(backend, handle)
     /\ last' = [NoCommand EXCEPT !.op = "KEYS", !.key = key_start, !.key2 = key_end,
                                  !.count = limit, !.pre = table, !.err = r.err,
                                  !.keys_out = r.ret, !.hits = Hits(F, r.calls), !.ev = r.ev]
     /\ chain' = NoChain
     /\ UNCHANGED <<val, result, backend, table, handle, config, store>>

\* DBKCOUNT
DBkcount(F) ==
  LET r == DBkcountImpl(backend, table, F, 0)
  IN /\ last.op = "NONE"
     /\ TableOpen(backend, handle)
     /\ last' = [NoCommand EXCEPT !.op = "DBKCOUNT", !.pre = table, !.err = r.err,
                                  !.size = r.size, !.hits = Hits(F, r.calls), !.ev = r.ev]
     /\ chain' = NoChain
     /\ UNCHANGED <<val, result, backend, table, handle, config, store>>

\* FLUSHDB
FlushDB(F) ==
  LET r == FlushDBImpl(backend, table, F)
  IN /\ last.op = "NONE"
     /\ TableOpen(backend, handle)
     /\ table' = r.table
     /\ last' = [NoCommand EXCEPT !.op = "FLUSHDB", !.pre = table, !.err = r.err,
                                  !.hits = Hits(F, r.calls), !.ev = r.ev,
                                  !.size = IF backend = "lmdb" THEN r.sz ELSE 0]
     /\ chain' = NoChain
     /\ UNCHANGED <<val, result, backend, handle, config, store>>

\* Connect(config)
Connect(is_dir, flag, F) ==
  LET r == BaseConnect(backend, handle, config, DefaultConfig, is_dir, flag, store, F)
      open == OpenTable(backend, r.handle)
  IN /\ last.op = "NONE"
     /\ ~IsConnected(handle)                            \* DCHECK(*context == NULL)
     /\ handle' = r.handle
     /\ config' = r.config
     /\ store' = r.store
     /\ table' = IF open # NULL THEN r.store.tabs[open].rows ELSE <<>>
     /\ last' = [NoCommand EXCEPT !.op = "CONNECT", !.err = r.err, !.hits = Hits(F, r.calls),
                                  !.ev = r.ev, !.hpre = handle, !.is_dir = is_dir,
                                  !.flag = flag, !.open_calls = r.calls]
     /\ chain' = NoChain
     /\ UNCHANGED <<val, result, backend>>

\* what Disconnect() and QUIT leave behind
DisconnectCall(op, outcome) ==
  LET r == IF op = "QUIT" THEN QuitImpl(backend, handle, store, table, outcome)
           ELSE DBConnectionDisconnect(backend, handle, store, table, outcome)
  IN /\ last.op = "NONE"
     /\ handle' = r.handle
     /\ store' = r.store
     /\ table' = r.table
     /\ last' = [NoCommand EXCEPT !.op = op, !.err = r.err, !.ev = r.ev, !.hpre = handle,
                                  !.pre = table, !.deref = r.deref, !.dead = r.dead]
     /\ chain' = NoChain
     /\ UNCHANGED <<val, result, backend, config>>

\* Disconnect(), in any state of the connection
Disconnect(outcome) == DisconnectCall("DISCONNECT", outcome)

\* QUIT, dispatched on a connected connection
Quit(outcome) ==
  /\ IsConnected(handle)
  /\ DisconnectCall("QUIT", outcome)

\* SELECTDB <name>
Select(name, F) ==
  LET r == SelectImpl(backend, handle, config, store, table, name, F)
  IN /\ last.op = "NONE"
     /\ IsConnected(handle)
     /\ handle' = r.handle
     /\ config' = r.config
     /\ store' = r.store
     /\ table' = r.table
     /\ last' = [NoCommand EXCEPT !.op = "SELECT", !.name = name, !.info = r.info,
                                  !.err = r.err, !.hits = Hits(F, r.calls),
                                  !.sel_hits = Hits(F, r.sel_calls), !.sel_ev = r.sel_ev,
                                  !.ev = r.ev,
                                  !.hpre = handle, !.pre = table,
                                  !.cpre = GetCurrentDBName(backend, handle, config)]
     /\ chain' = NoChain
     /\ UNCHANGED <<val, result, backend>>

\* CONFIG GET DATABASES
ConfigGetDatabases(F) ==
  LET r == ConfigGetDatabasesImpl(backend, handle, config, store, F)
  IN /\ last.op = "NONE"
     /\ IsConnected(handle)                             \* TestIsAuthenticated
     /\ last' = [NoCommand EXCEPT !.op = "CONFIG GET DATABASES", !.keys_out = r.dbs,
                                  !.err = r.err, !.hits = Hits(F, r.calls), !.ev = r.ev,
                                  !.hpre = handle, !.pre = table]
     /\ chain' = NoChain
     /\ UNCHANGED <<val, result, backend, table, handle, config, store>>

\* GET, SET or DEL of LMDB while the handle has no table open
CommandWithoutTable(op, F) ==
  LET r == LmdbNoTable(op, F)
  IN /\ last.op = "NONE"
     /\ backend = "lmdb"
     /\ IsConnected(handle)
     /\ ~TableOpen(backend, handle)
     /\ last' = [NoCommand EXCEPT !.op = op, !.err = r.err, !.hits = Hits(F, r.calls),
                                  !.ev = r.ev, !.hpre = handle, !.pre = table]
     /\ chain' = NoChain
     /\ UNCHANGED <<val, result, backend, table, handle, config, store>>

\* the caller starts a pagination: SCAN 0 MATCH pattern COUNT count
ChainStart(pattern, count_keys) ==
  /\ ~chain.active
  /\ ScanCall(0, pattern, count_keys, {})
  /\ chain' = [active |-> TRUE, pattern |-> pattern, count |-> count_keys,
               cursor |-> last'.cursor_out, pages |-> last'.keys_out,
               sizes |-> << Len(last'.keys_out) >>, done |-> (last'.cursor_out = 0)]

\* the caller feeds the returned cursor into the next SCAN
ChainStep ==
  /\ chain.active
  /\ ~chain.done
  /\ ScanCall(chain.cursor, chain.pattern, chain.count, {})
  /\ chain' = [chain EXCEPT !.cursor = last'.cursor_out,
                            !.pages = chain.pages \o last'.keys_out,
                            !.sizes = Append(chain.sizes, Len(last'.keys_out)),
                            !.done = (last'.cursor_out = 0)]

\* the handler has returned and the caller has taken the reply
Reply ==
  /\ last.op # "NONE"
  /\ ~last.dead
  /\ last' = NoCommand
  /\ UNCHANGED <<val, result, backend, table, chain, handle, config, store>>

\* EXPIRE <key> <ttl> on LMDB
SetTTL(key, ttl) ==
  LET r == LmdbSetTTLImpl(table, key, ttl)
  IN /\ last.op = "NONE"
     /\ backend = "lmdb"
     /\ table' = r.table
     /\ last' = [NoCommand EXCEPT !.op = "SETTTL", !.key = key, !.ttl = ttl, !.pre = table,
                                  !.err = r.err, !.hits = r.calls, !.ev = r.ev]
     /\ chain' = NoChain
     /\ UNCHANGED <<val, result, backend, handle, config, store>>

\* TTL <key> on LMDB
GetTTL(key) ==
  LET r == LmdbGetTTLImpl(table, key)
  IN /\ last.op = "NONE"
     /\ backend = "lmdb"
     /\ table' = r.table
     /\ last' = [NoCommand EXCEPT !.op = "GETTTL", !.key = key, !.pre = table,
                                  !.err = r.err, !.hits = r.calls, !.ev = r.ev]
     /\ chain' = NoChain
     /\ UNCHANGED <<val, result, backend, handle, config, store>>

Next ==
  \/ Reply
  \/ \E key \in KeySpace, ttl \in TtlSpace : SetTTL(key, ttl)
  \/ \E key \in KeySpace : GetTTL(key)
  \/ \E key \in KeySpace, value \in ValueSpace, F \in FaultSets : Set(key, value, F)
  \/ \E key \in KeySpace, F \in FaultSets : Get(key, F)
  \/ \E keys \in KeyLists, F \in FaultSets : Delete(keys, F)
  \/ \E key \in KeySpace, new_key \in KeySpace, F \in FaultSets : Rename(key, new_key, F)
  \/ \E cursor_in \in 0..MaxCursor, pattern \in PatternSpace, count_keys \in 0..MaxCount,
        F \in FaultSets : Scan(cursor_in, pattern, count_keys, F)
  \/ \E key_start \in KeySpace, key_end \in KeySpace, limit \in 0..MaxCount,
        F \in FaultSets : Keys(key_start, key_end, limit, F)
  \/ \E F \in FaultSets : DBkcount(F)
  \/ \E F \in FaultSets : FlushDB(F)

Spec == Init /\ [][Next]_vars

\* the caller paginates; between paginations the table is filled and emptied
NextChain ==
  \/ Reply
  \/ \E key \in KeySpace, value \in ValueSpace : Set(key, value, {})
  \/ \E key \in KeySpace : Delete(<<key>>, {})
  \/ \E pattern \in PatternSpace, count_keys \in 1..MaxCount : ChainStart(pattern, count_keys)
  \/ ChainStep

SpecChain == Init /\ [][NextChain]_vars

\* keys, value and pattern of the data commands between connection commands
ConnKeys == { <<97>>, <<98>> }
ConnValue == <<120>>

\* the life of a connection: connect, select tables, work on them, disconnect
NextConn ==
  \/ Reply
  \/ \E is_dir \in {"SUCCESS", "FAIL", "INDETERMINATE"}, flag \in BOOLEAN, F \in FaultSets :
        Connect(is_dir, flag, F)
  \/ \E outcome \in {"fault", "elided"} : Disconnect(outcome)
  \/ \E outcome \in {"fault", "elided"} : Quit(outcome)
  \/ \E name \in NameSpace, F \in FaultSets : Select(name, F)
  \/ \E F \in FaultSets : ConfigGetDatabases(F)
  \/ \E op \in {"GET", "SET", "DEL"}, F \in FaultSets : CommandWithoutTable(op, F)
  \/ \E key \in ConnKeys, F \in FaultSets : Set(key, ConnValue, F)
  \/ \E key \in ConnKeys, F \in FaultSets : Get(key, F)
  \/ \E key \in ConnKeys, F \in FaultSets : Delete(<<key>>, F)
  \/ \E key \in ConnKeys, new_key \in ConnKeys, F \in FaultSets : Rename(key, new_key, F)
  \/ \E F \in FaultSets : Scan(0, <<STAR>>, 1, F)
  \/ \E F \in FaultSets : Keys(<<97>>, <<99>>, 1, F)
  \/ \E F \in FaultSets : DBkcount(F)
  \/ \E F \in FaultSets : FlushDB(F)

SpecConn == InitConn /\ [][NextConn]_vars

\* the texts of a type and of a field: LMDB, upscaledb, Redis, Memcached, a
\* digit that is no type, nothing; nothing, "a", "50"
TypeTexts == { <<54>>, <<55>>, <<48>>, <<49>>, <<57>>, <<>> }
FieldTexts == { <<>>, <<97>>, <<53, 48>> }

\* the fields behind the type, each after a comma
RECURSIVE Joined(_)
Joined(fs) ==
  IF fs = <<>> THEN <<>> ELSE << COMMA >> \o Head(fs) \o Joined(Tail(fs))

InitParse ==
  /\ backend = "lmdb"
  /\ table = <<>>
  /\ last = NoCommand
  /\ chain = NoChain
  /\ handle = NullHandle
  /\ config = DefaultConfig
  /\ store = FreshStore
  /\ \E type \in TypeTexts, k \in 0..MaxFields :
       \E fs \in [1..k -> FieldTexts] : val = type \o Joined(fs)
  /\ result = nullptr

\* CreateFromString(val)
Parse ==
  /\ last.op = "NONE"
  /\ result' = CreateFromString(val)
  /\ last' = [NoCommand EXCEPT !.op = "CREATEFROMSTRING"]
  /\ UNCHANGED <<val, backend, table, chain, handle, config, store>>

NextParse == Parse

SpecParse == InitParse /\ [][NextParse]_vars

\* a command of the registry is invoked with argc arguments: the handler
\* runs when the count is in the declared range
Execute(name, argc) ==
  LET ok == ArityAccepted(g_commands[name], argc)
  IN /\ last.op = "NONE"
     /\ last' = [NoCommand EXCEPT !.op = "EXECUTE", !.command = name, !.argc = argc,
                                  !.ran = ok,
                                  !.err = IF ok THEN NoError
                                          ELSE <<"EXECUTE", "Invalid input argument">>]
     /\ UNCHANGED <<val, result, backend, table, chain, handle, config, store>>

InitRegistry ==
  /\ backend = "upscaledb"
  /\ table = <<>>
  /\ last = NoCommand
  /\ chain = NoChain
  /\ handle = NullHandle
  /\ config = DefaultConfig
  /\ store = FreshStore
  /\ val = <<>>
  /\ result = nullptr

NextRegistry ==
  \/ Reply
  \/ \E name \in DOMAIN g_commands, argc \in 0..MaxArgc : Execute(name, argc)

SpecRegistry == InitRegistry /\ [][NextRegistry]_vars

TypeOK ==
  /\ backend \in Backends
  /\ IsSorted(table)
  /\ TableKeys(table) \subseteq KeySpace

(***************************************************************************)
(* Vocabulary of the properties                                            *)
(***************************************************************************)
\* the keys of t that match the pattern, in iteration order
MatchingKeys(t, pattern) ==
  LET m == SelectSeq(t, LAMBDA r : MatchPattern(r.key, pattern))
  IN [i \in 1..Len(m) |-> m[i].key]

\* the keys of t strictly between key_start and key_end, in iteration order
KeysBetween(t, key_start, key_end) ==
  LET m == SelectSeq(t, LAMBDA r : StrLess(key_start, r.key) /\ StrLess(r.key, key_end))
  IN [i \in 1..Len(m) |-> m[i].key]

Min(a, b) == IF a < b THEN a ELSE b

\* elements from+1 .. from+n of q, cut at the end of q
Page(q, from, n) == SubSeq(q, from + 1, Min(from + n, Len(q)))

CeilDiv(m, d) == (m + d - 1) \div d

\* what a GET of key answers in the current state, no native failure
GetNow(key) == GetImpl(backend, table, key, {})

NotFoundError == <<"GET", NotFoundCode(backend)>>

\* the command ran without an injected native failure and returned no error
CleanReply(op) == last.op = op /\ last.err = NoError /\ last.hits = 0

\* k holds the same value, or is absent, in both tables
SameAt(t1, t2, k) ==
  /\ HasKey(t1, k) <=> HasKey(t2, k)
  /\ HasKey(t1, k) => ValueOf(t1, k) = ValueOf(t2, k)

(***************************************************************************)
(* Properties                                                              *)
(***************************************************************************)
\* C1: a SET of (k, v) that returned no error leaves a table in which GET k
\* answers exactly v, also when k held another value before; k has one
\* record, and the table grows by one record only if k was absent.
C1_SetThenGet ==
  (last.op = "SET" /\ last.err = NoError) =>
     /\ GetNow(last.key).err = NoError
     /\ GetNow(last.key).val = last.value
     /\ Cardinality({ i \in 1..Len(table) : table[i].key = last.key }) = 1
     /\ Len(table) = Len(last.pre) + (IF HasKey(last.pre, last.key) THEN 0 ELSE 1)

C1_Witness ==
  /\ last.op = "SET" /\ last.err = NoError
  /\ HasKey(last.pre, last.key)
  /\ ValueOf(last.pre, last.key) # last.value
  /\ GetNow(last.key).val = last.value

\* the number of SCAN calls of the running pagination
ChainCalls == Len(chain.sizes)

\* the matches of the running pagination
ChainMatches == MatchingKeys(table, chain.pattern)

\* the last key of the table matches the pattern of the running pagination
LastKeyMatches == table # <<>> /\ MatchPattern(table[Len(table)].key, chain.pattern)

\* C2 as stated: a pagination chained through cursorOut until cursorOut == 0
\* makes exactly ceil(M/s) SCAN calls (the one call it cannot avoid when
\* M == 0) and its pages concatenate to exactly the M matching keys.
C2_ExactlyCeilPages ==
  (chain.active /\ chain.done) =>
     /\ ChainCalls = (IF ChainMatches = <<>> THEN 1 ELSE CeilDiv(Len(ChainMatches), chain.count))
     /\ chain.pages = ChainMatches
     /\ chain.cursor = 0

\* C2 amended: the pages concatenate to exactly the M matching keys, in
\* order, every page but the last holds s keys, the last call returns
\* cursorOut == 0, and the number of calls is floor(M/s) + 1; only LMDB,
\* when M > 0 is a multiple of s and the last match is the last key of the
\* table, saves the trailing empty page and makes M/s calls.
C2_PagesAmended ==
  (chain.active /\ chain.done) =>
     LET M == Len(ChainMatches)
         s == chain.count
     IN /\ chain.pages = ChainMatches
        /\ chain.cursor = 0
        /\ \A i \in 1..(ChainCalls - 1) : chain.sizes[i] = s
        /\ ChainCalls =
             IF backend = "lmdb" /\ M > 0 /\ M % s = 0 /\ LastKeyMatches
             THEN M \div s
             ELSE (M \div s) + 1
        /\ ChainCalls \in { CeilDiv(M, s), CeilDiv(M, s) + 1 }

C2_Witness ==
  /\ chain.active /\ chain.done
  /\ chain.count = 1
  /\ chain.sizes = <<1, 1, 0>>
  /\ chain.pages = ChainMatches
  /\ Len(table) = 3

\* C3: one SCAN that meets no native failure returns cursorOut ==
\* cursorIn + pageSize when it collected its pageSize (>= 1) matches, and
\* cursorOut == 0 with the matches found when the table ran out first.
C3_CursorOutRule ==
  CleanReply("SCAN") =>
     /\ (last.count >= 1 /\ Len(last.keys_out) = last.count) =>
          last.cursor_out = last.cursor_in + last.count
     /\ Len(last.keys_out) < last.count =>
          /\ last.cursor_out = 0
          /\ last.keys_out = Page(MatchingKeys(last.pre, last.pattern), last.cursor_in, last.count)

\* C4: one SCAN that meets no native failure returns exactly the elements
\* cursorIn .. cursorIn+pageSize-1 (0-based, cut at the end) of the sequence
\* of matching keys of the table: non-matching keys are neither counted
\* nor returned, and at most pageSize keys are returned.
C4_PageContent ==
  CleanReply("SCAN") =>
     /\ last.keys_out = Page(MatchingKeys(last.pre, last.pattern), last.cursor_in, last.count)
     /\ Len(last.keys_out) <= last.count
     /\ \A i \in 1..Len(last.keys_out) : MatchPattern(last.keys_out[i], last.pattern)

C4_Witness ==
  /\ CleanReply("SCAN")
  /\ last.cursor_in = 1
  /\ Len(last.keys_out) = 2
  /\ Len(MatchingKeys(last.pre, last.pattern)) = 3
  /\ Len(last.pre) = 4
  /\ ~MatchPattern(last.pre[2].key, last.pattern)

\* C5: a SCAN that returns cursorOut == 0 has reached the end of the
\* results: the table has no matching key beyond the cursorIn skipped ones
\* and the ones this call returned, for every pageSize including 0; and a
\* SCAN with cursorIn == 0 starts at the first matching key.
C5_ZeroMeansEnd ==
  CleanReply("SCAN") =>
     /\ last.cursor_out = 0 =>
          Len(MatchingKeys(last.pre, last.pattern)) <= last.cursor_in + Len(last.keys_out)
     /\ (last.cursor_in = 0 /\ last.keys_out # <<>>) =>
          last.keys_out[1] = MatchingKeys(last.pre, last.pattern)[1]

\* C6: KEYS start end limit, without native failure, returns in iteration
\* order only keys strictly between start and end, never more than limit of
\* them (limit >= 0), and all of them when fewer than limit are in range.
C6_KeysInRange ==
  CleanReply("KEYS") =>
     LET inrange == KeysBetween(last.pre, last.key, last.key2)
     IN /\ Len(last.keys_out) <= last.count
        /\ last.keys_out = SubSeq(inrange, 1, Min(last.count, Len(inrange)))

\* the keys the DEL command reported as deleted
Deleted == { last.keys_out[i] : i \in 1..Len(last.keys_out) }

\* C7: after a DEL that deleted key k (k was present), GET k fails with the
\* backend's not-found status and every key that was not deleted holds
\* what it held before.
C7_DeleteThenGet ==
  last.op = "DEL" =>
     /\ \A k \in Deleted : GetNow(k).err = NotFoundError
     /\ \A k \in KeySpace \ Deleted : SameAt(last.pre, table, k)

C7_Witness ==
  /\ last.op = "DEL"
  /\ Len(last.keys) = 1
  /\ last.keys_out = last.keys
  /\ HasKey(last.pre, last.keys[1])
  /\ Len(last.pre) = 3
  /\ Len(table) = 2

\* the positions of keys whose key is present in t and not listed earlier in keys
FirstPresent(keys, t) ==
  { i \in 1..Len(keys) : HasKey(t, keys[i]) /\ \A j \in 1..(i - 1) : keys[j] # keys[i] }

\* q is keys restricted to the positions in P, in order
IsRestriction(q, keys, P) ==
  \E f \in [1..Len(q) -> P] :
     /\ \A i \in 1..Len(q) : q[i] = keys[f[i]]
     /\ \A i \in 1..Len(q) : \A j \in 1..Len(q) : i < j => f[i] < f[j]

\* C8: DEL key [key ...] always returns success; absent keys and keys
\* whose native delete fails are skipped and the rest is processed; the
\* reported list holds, in input order and each key once, exactly the keys
\* that were deleted, which are exactly the keys gone from the table.
C8_MultiDelete ==
  last.op = "DEL" =>
     /\ last.err = NoError
     /\ \E P \in SUBSET (1..Len(last.keys)) :
           /\ Cardinality(P) = Len(last.keys_out)
           /\ IsRestriction(last.keys_out, last.keys, P)
     /\ \A i \in 1..Len(last.keys_out) : \A j \in 1..Len(last.keys_out) :
           i # j => last.keys_out[i] # last.keys_out[j]
     /\ Deleted \subseteq TableKeys(last.pre)
     /\ TableKeys(table) = TableKeys(last.pre) \ Deleted
     /\ last.hits = 0 =>
           /\ Cardinality(FirstPresent(last.keys, last.pre)) = Len(last.keys_out)
           /\ IsRestriction(last.keys_out, last.keys, FirstPresent(last.keys, last.pre))

C8_Witness ==
  /\ last.op = "DEL"
  /\ last.err = NoError
  /\ Len(last.keys) = 2
  /\ last.keys[1] # last.keys[2]
  /\ HasKey(last.pre, last.keys[1])
  /\ HasKey(last.pre, last.keys[2])
  /\ last.hits = 1
  /\ last.keys_out = << last.keys[2] >>

\* C9 as stated: RENAME k1 k2 on a present k1 with value v, without native
\* failure, succeeds; afterwards GET k2 answers v and GET k1 fails with
\* not-found, for every k1, k2, k2 present or not, k1 = k2 included.
C9_RenameMoves ==
  (last.op = "RENAME" /\ last.hits = 0 /\ HasKey(last.pre, last.key)) =>
     /\ last.err = NoError
     /\ GetNow(last.key2).err = NoError
     /\ GetNow(last.key2).val = ValueOf(last.pre, last.key)
     /\ GetNow(last.key).err = NotFoundError

\* C9 amended: as stated when k1 differs from k2; when k1 = k2 the rename
\* succeeds and the key keeps its value (the table is what it was); keys
\* other than k1 and k2 are untouched.
C9_RenameMovesDistinct ==
  (last.op = "RENAME" /\ last.hits = 0 /\ HasKey(last.pre, last.key)) =>
     /\ last.err = NoError
     /\ GetNow(last.key2).err = NoError
     /\ GetNow(last.key2).val = ValueOf(last.pre, last.key)
     /\ last.key # last.key2 => GetNow(last.key).err = NotFoundError
     /\ last.key = last.key2 => table = last.pre
     /\ \A k \in KeySpace \ {last.key, last.key2} : SameAt(last.pre, table, k)

C9_Witness ==
  /\ last.op = "RENAME" /\ last.hits = 0 /\ last.err = NoError
  /\ last.key # last.key2
  /\ HasKey(last.pre, last.key)
  /\ HasKey(last.pre, last.key2)
  /\ ValueOf(last.pre, last.key) # ValueOf(last.pre, last.key2)
  /\ GetNow(last.key2).val = ValueOf(last.pre, last.key)
  /\ ~HasKey(table, last.key)

\* C10: RENAME k1 k2 with k1 absent returns an error and leaves the table
\* as it was: k2 keeps its value or stays absent, no key is added or removed.
C10_RenameAbsent ==
  (last.op = "RENAME" /\ ~HasKey(last.pre, last.key)) =>
     /\ last.err # NoError
     /\ table = last.pre

C10_Witness ==
  /\ last.op = "RENAME"
  /\ ~HasKey(last.pre, last.key)
  /\ HasKey(last.pre, last.key2)
  /\ last.hits = 0
  /\ last.err = <<"GET", NotFoundCode(backend)>>
  /\ table = last.pre

\* what DBKCOUNT answers in the current state, no native failure
CountNow == DBkcountImpl(backend, table, {}, 0)

\* C11: after a FLUSHDB that met no native failure and returned no error,
\* the count of the table is 0 and a GET of every key fails with the
\* backend's not-found status, whatever the table held before.
C11_FlushEmpties ==
  CleanReply("FLUSHDB") =>
     /\ CountNow.err = NoError
     /\ CountNow.size = 0
     /\ \A k \in KeySpace : GetNow(k).err = NotFoundError

C11_Witness ==
  /\ CleanReply("FLUSHDB")
  /\ Len(last.pre) = 3
  /\ CountNow.size = 0
  /\ GetNow(last.pre[2].key).err = NotFoundError

\* C12: a FLUSHDB that meets a native failure is all-or-nothing: either
\* every key is removed, or the table is left as it was and an error is
\* returned; it never returns success while keys remain.
C12_FlushAllOrNothing ==
  (last.op = "FLUSHDB" /\ last.hits > 0) =>
     /\ table = <<>> \/ (table = last.pre /\ last.err # NoError)
     /\ last.err = NoError => table = <<>>

\* the table SELECT <name> asks for, as the backend names it; NULL when the
\* name is not one the backend can convert
Requested(b, name) ==
  IF b = "lmdb" THEN name
  ELSE IF ConvertFromString(name).ok THEN ConvertToString(ConvertFromString(name).num) ELSE NULL

\* the last command was a SELECT of the table that was open already
SelectOfOpenTable ==
  /\ last.op = "SELECT"
  /\ OpenTable(backend, last.hpre) # NULL
  /\ Requested(backend, last.name) = OpenTable(backend, last.hpre)

\* C13: a SELECT of the table that is already open makes no native call for
\* the switch (no open, no close, no transaction) and returns success; the
\* handle with its table reference and the table are what they were, so
\* two SELECTs of one name in a row open the table at most once.
C13_LazySelect ==
  SelectOfOpenTable =>
     /\ last.sel_ev = <<>>
     /\ last.sel_hits = 0
     /\ last.err = NoError
     /\ handle = last.hpre
     /\ table = last.pre

C13_Witness ==
  /\ SelectOfOpenTable
  /\ last.name # DefaultName
  /\ Len(table) = 2
  /\ last.sel_ev = <<>>
  /\ handle = last.hpre

\* C14: a SELECT that met no native failure and returned no error reports
\* the requested name, the existence flag true and the key count DBKCOUNT
\* answers on the now-current table, both when the table was switched and
\* when it was current already.
C14_SelectInfo ==
  (CleanReply("SELECT")) =>
     /\ last.info.name = last.name
     /\ last.info.exists
     /\ CountNow.err = NoError
     /\ last.info.kcount = CountNow.size
     /\ last.info.kcount = Len(table)

C14_Witness ==
  /\ CleanReply("SELECT")
  /\ ~SelectOfOpenTable
  /\ OpenTable(backend, last.hpre) # NULL
  /\ Len(last.pre) = 1
  /\ last.info.kcount = 2

\* C15: a SELECT, issued while a table is open, one of whose native steps
\* for the switch fails (transaction begin, table open, commit of the
\* opening transaction) returns an error and leaves the handle, its open table, the current
\* table name and the table the data commands work on as they were.
C15_SelectFailureKeepsTable ==
  (last.op = "SELECT" /\ last.sel_hits > 0 /\ OpenTable(backend, last.hpre) # NULL) =>
     /\ last.err # NoError
     /\ handle = last.hpre
     /\ GetCurrentDBName(backend, handle, config) = last.cpre
     /\ table = last.pre

\* C16: whenever the connection is connected, the name GetCurrentDBName
\* reports is the name of the table the handle has open.
C16_CurrentNameIsOpenTable ==
  IsConnected(handle) =>
     GetCurrentDBName(backend, handle, config) = OpenTable(backend, handle)

\* number of occurrences of event e in the trace ev
RECURSIVE Occurrences(_, _)
Occurrences(ev, e) ==
  IF ev = <<>> THEN 0
  ELSE (IF Head(ev) = e THEN 1 ELSE 0) + Occurrences(Tail(ev), e)

\* C17: IsConnected is true exactly when the handle is non-null; a failed
\* Connect leaves the handle null, a successful one makes it non-null;
\* Disconnect and QUIT from a connected state, whatever table is selected,
\* return success, close the environment and leave the handle null.
C17_StateMachine ==
  /\ IsConnected(handle) <=> handle.ptr # "null"
  /\ (last.op = "CONNECT" /\ last.err # NoError) => handle = NullHandle
  /\ (last.op = "CONNECT" /\ last.err = NoError) => (handle.ptr # "null" /\ IsConnected(handle))
  /\ (last.op \in {"DISCONNECT", "QUIT"} /\ last.hpre.ptr # "null") =>
        /\ last.err = NoError
        /\ handle = NullHandle
        /\ ~IsConnected(handle)
        /\ Occurrences(last.ev, "env_close") = 1

C17_Witness ==
  /\ last.op = "QUIT"
  /\ OpenTable(backend, last.hpre) \notin { NULL, DefaultName }
  /\ Len(last.pre) = 1
  /\ handle = NullHandle

\* C18: Disconnect() on a connection that is disconnected already returns
\* success and changes nothing, without dereferencing the null handle.
C18_DisconnectIdempotent ==
  (last.op = "DISCONNECT" /\ last.hpre.ptr = "null") =>
     /\ last.err = NoError
     /\ ~last.deref
     /\ ~last.dead
     /\ handle = NullHandle

\* C19: the allocator's Disconnect on a null handle closes nothing, returns
\* success and leaves the handle null; on an open handle it closes the
\* table reference once and the environment once and leaves the handle null.
C19_AllocatorDisconnect ==
  (last.op \in {"DISCONNECT", "QUIT"} /\ ~last.dead) =>
     /\ last.err = NoError
     /\ handle = NullHandle
     /\ last.hpre.ptr = "null" => last.ev = <<>>
     /\ last.hpre.ptr # "null" =>
           /\ Len(last.ev) = 2
           /\ Occurrences(last.ev, IF backend = "lmdb" THEN "dbi_close" ELSE "db_close") = 1
           /\ Occurrences(last.ev, "env_close") = 1

C19_Witness ==
  /\ last.op = "DISCONNECT"
  /\ last.hpre.ptr = "null"
  /\ ~last.dead
  /\ last.ev = <<>>
  /\ store.file
  /\ handle = NullHandle

\* the transactions open after the first i events of the trace ev
RECURSIVE OpenTxns(_, _)
OpenTxns(ev, i) ==
  IF i = 0 THEN 0
  ELSE OpenTxns(ev, i - 1)
       + (IF ev[i] = "txn_begin" THEN 1 ELSE 0)
       - (IF ev[i] \in {"txn_commit", "txn_commit_failed", "txn_abort"} THEN 1 ELSE 0)

\* C20: at every instant of every command of the LMDB connection at most
\* one native transaction is open, and none is open when a transaction is
\* begun: commands that use several transactions end each before the next.
C20_OneTransaction ==
  backend = "lmdb" =>
     \A i \in 0..Len(last.ev) :
        /\ OpenTxns(last.ev, i) \in {0, 1}
        /\ (i > 0 /\ last.ev[i] = "txn_begin") => OpenTxns(last.ev, i - 1) = 0

C20_Witness ==
  /\ backend = "lmdb"
  /\ last.op = "RENAME"
  /\ last.err = NoError
  /\ Occurrences(last.ev, "txn_begin") = 3
  /\ Occurrences(last.ev, "txn_commit") = 2

\* the cursors open after the first i events of the trace ev
RECURSIVE OpenCursors(_, _)
OpenCursors(ev, i) ==
  IF i = 0 THEN 0
  ELSE OpenCursors(ev, i - 1)
       + (IF ev[i] = "cursor_open" THEN 1 ELSE 0)
       - (IF ev[i] = "cursor_close" THEN 1 ELSE 0)

\* C21: when a command returns, with success or with an error at any of
\* its steps, every transaction it began is committed or aborted and every
\* cursor it opened is closed, on both backends.
C21_NothingLeftOpen ==
  /\ OpenTxns(last.ev, Len(last.ev)) = 0
  /\ OpenCursors(last.ev, Len(last.ev)) = 0
  /\ \A i \in 0..Len(last.ev) : OpenTxns(last.ev, i) >= 0 /\ OpenCursors(last.ev, i) >= 0

C21_Witness ==
  /\ backend = "lmdb"
  /\ last.op = "KEYS"
  /\ last.err # NoError
  /\ last.hits = 1
  /\ last.ev = <<"txn_begin", "txn_abort">>

\* C22: a SCAN, KEYS, DBKCOUNT or FLUSHDB on a non-empty table during which
\* a native call fails (a cursor move with a status other than
\* end-of-iteration included) returns an error, on both backends.
C22_FailureIsError ==
  (/\ last.op \in {"SCAN", "KEYS", "DBKCOUNT", "FLUSHDB"}
   /\ last.hits > 0
   /\ last.pre # <<>>
   /\ last.op \in {"SCAN", "KEYS"} => last.count > 0) =>
     last.err # NoError

\* the layout Connect was asked for cannot hold a store: LMDB, a directory
\* where a single file is wanted or an existing non-directory where a
\* directory is wanted; upscaledb, a parent folder that is no directory
ImpossibleLayout ==
  IF backend = "lmdb"
  THEN (last.is_dir = "SUCCESS" /\ last.flag) \/ (last.is_dir = "FAIL" /\ ~last.flag)
  ELSE last.is_dir # "SUCCESS"

\* C23: a Connect with an impossible storage layout returns an error, makes
\* no native call (no environment is created or opened) and leaves the
\* handle null; with every other layout the native open is attempted.
C23_LayoutChecked ==
  last.op = "CONNECT" =>
     /\ ImpossibleLayout =>
          /\ last.err # NoError
          /\ last.open_calls = 0
          /\ last.ev = <<>>
          /\ handle = NullHandle
     /\ ~ImpossibleLayout => last.open_calls >= 1

C23_Witness ==
  /\ last.op = "CONNECT"
  /\ backend = "lmdb"
  /\ last.is_dir = "FAIL"
  /\ ~last.flag
  /\ last.err = <<"CONNECT", "Invalid input path">>
  /\ last.open_calls = 0
  /\ handle = NullHandle

\* C24: no operation of a Connection changes its Config: while connected,
\* the Config is the one that was passed to Connect.
C24_ConfigImmutable ==
  IsConnected(handle) => config = DefaultConfig

\* C25: on LMDB, TTL-set and TTL-get return an error for every key and ttl,
\* whether the key is in the table or not; they make no native call, open
\* no transaction and leave the table as it was.
C25_TTLNotSupported ==
  (backend = "lmdb" /\ last.op \in {"SETTTL", "GETTTL"}) =>
     /\ last.err # NoError
     /\ last.ev = <<>>
     /\ last.hits = 0
     /\ table = last.pre

C25_Witness ==
  /\ backend = "lmdb"
  /\ last.op = "SETTTL"
  /\ HasKey(last.pre, last.key)
  /\ last.ttl = 1
  /\ last.err = NotSupportedTTL
  /\ table = last.pre

\* the places of the commas of s, in order
CommaPlaces(s) ==
  LET idx == [i \in 1..Len(s) |-> i]
  IN SelectSeq(idx, LAMBDA i : s[i] = COMMA)

\* the n-th field of s: the text up to the n-th comma or the end, from
\* behind the comma before it
FieldOf(s, n) ==
  LET cp == CommaPlaces(s)
      from == IF n = 1 THEN 1 ELSE cp[n - 1] + 1
      to == IF n <= Len(cp) THEN cp[n] - 1 ELSE Len(s)
  IN SubSeq(s, from, to)

\* all of s behind its n-th comma
Remainder(s, n) == SubSeq(s, CommaPlaces(s)[n] + 1, Len(s))

\* val has a one-digit type that names a built-in backend
BuiltInType ==
  /\ Len(FieldOf(val, 1)) = 1
  /\ FieldOf(val, 1)[1] - 48 \in 0..7

TypeOfVal == FieldOf(val, 1)[1] - 48

Parsed == last.op = "CREATEFROMSTRING"

\* C26: for a local backend and a text with at least three commas, the
\* settings object has the type, the path and the logging interval of the
\* first three fields, and its command line is everything behind the third
\* comma, commas included.
C26_LocalCommandLineVerbatim ==
  (/\ Parsed
   /\ BuiltInType
   /\ ~IsRemoteType(TypeOfVal)
   /\ Len(CommaPlaces(val)) >= 3
   /\ IsNumber(FieldOf(val, 3))) =>
      /\ result.valid
      /\ result.type = TypeOfVal
      /\ result.path_set /\ result.path = FieldOf(val, 2)
      /\ result.ms_set /\ result.ms = ToNumber(FieldOf(val, 3))
      /\ result.cmd_set /\ result.cmd = Remainder(val, 3)

\* "6,a,50,a,a" and the like: a command line that holds a comma
C26_Witness ==
  /\ Parsed
  /\ val = <<54, 44, 97, 44, 53, 48, 44, 97, 44, 97>>
  /\ result.type = LMDB
  /\ result.path = <<97>>
  /\ result.ms = 50
  /\ result.cmd = <<97, 44, 97>>

\* C27: a text that ends with the logging interval carries it into the
\* settings object, and a text of a remote backend that ends with the
\* command line carries that.
C27_TrailingFieldsParsed ==
  (Parsed /\ BuiltInType) =>
     /\ (/\ Len(CommaPlaces(val)) = 2
         /\ FieldOf(val, 2) # <<>>
         /\ IsNumber(FieldOf(val, 3))) =>
          /\ result.valid
          /\ result.path_set /\ result.path = FieldOf(val, 2)
          /\ result.ms_set /\ result.ms = ToNumber(FieldOf(val, 3))
     /\ (Len(CommaPlaces(val)) = 3 /\ IsRemoteType(TypeOfVal)) =>
          /\ result.valid
          /\ result.cmd_set /\ result.cmd = FieldOf(val, 4)

\* C28: for a remote backend and a text with at least four commas the
\* command line is the fourth field, and the SSH info is set, to everything
\* behind the fourth comma, exactly when the settings object takes SSH info;
\* for a local backend no SSH info is set and the command line is everything
\* behind the third comma.
C28_RemoteCommandLineAndSSH ==
  (Parsed /\ BuiltInType) =>
     /\ (IsRemoteType(TypeOfVal) /\ Len(CommaPlaces(val)) >= 4) =>
          /\ result.valid
          /\ result.cmd_set /\ result.cmd = FieldOf(val, 4)
          /\ result.ssh_set <=> IsRemoteSSH(TypeOfVal)
          /\ result.ssh_set => result.ssh = Remainder(val, 4)
     /\ ~IsRemoteType(TypeOfVal) =>
          /\ ~result.ssh_set
          /\ Len(CommaPlaces(val)) >= 3 => result.cmd = Remainder(val, 3)

\* "0,a,50,a,a,50": Redis, whose SSH info holds a comma
C28_Witness ==
  /\ Parsed
  /\ val = <<48, 44, 97, 44, 53, 48, 44, 97, 44, 97, 44, 53, 48>>
  /\ result.type = REDIS
  /\ result.cmd = <<97>>
  /\ result.ssh_set
  /\ result.ssh = <<97, 44, 53, 48>>

\* the counts from min on, without an upper limit
AtLeast(min) == { n \in Nat : n >= min }

\* argc is in the range r
InRange(r, argc) == argc \in r

\* the table of arities: command, (min, max)
ArityTable ==
  [c \in {"GET", "SET", "DELETE", "RENAME", "SCAN", "KEYS", "DBKCOUNT", "FLUSHDB",
          "SELECTDB", "CONFIG GET", "QUIT"} |->
     CASE c \in {"GET", "SELECTDB", "CONFIG GET"} -> 1..1
       [] c \in {"SET", "RENAME"} -> 2..2
       [] c = "DELETE" -> AtLeast(1)
       [] c = "SCAN" -> 1..4
       [] c = "KEYS" -> 3..3
       [] c \in {"DBKCOUNT", "QUIT"} -> 0..0
       [] c = "FLUSHDB" -> 0..1]

\* the same with SCAN taking up to five arguments
ArityTableScanFive == [ArityTable EXCEPT !["SCAN"] = 1..5]

\* C29: a command of the arity table runs its handler exactly when the
\* number of its arguments is in the range the table lists, SCAN (1,4)
\* included; otherwise the invocation is rejected with an error.
C29_ArityTable ==
  (last.op = "EXECUTE" /\ last.command \in DOMAIN ArityTable) =>
     /\ last.ran <=> InRange(ArityTable[last.command], last.argc)
     /\ ~last.ran <=> last.err # NoError

\* C29 amended: the registry declares required and optional counts, SCAN
\* (1,4), and a command runs its handler exactly when the number of its
\* arguments is from the required count to required plus optional: the
\* ranges of the table, but 1 to 5 for SCAN.
C29_ArityRequiredOptional ==
  /\ g_commands["SCAN"] = Arity(1, 4)
  /\ (last.op = "EXECUTE" /\ last.command \in DOMAIN ArityTableScanFive) =>
       /\ last.ran <=> InRange(ArityTableScanFive[last.command], last.argc)
       /\ ~last.ran <=> last.err # NoError

C29_Witness ==
  /\ last.op = "EXECUTE"
  /\ last.command = "SCAN"
  /\ last.argc = 5
  /\ last.ran
  /\ last.err = NoError

\* C30: a Rename that returns an error after a native failure, at the read
\* of the key, at its delete or at the write of the new key, leaves the
\* table with the keys and values it had before the call.
C30_RenameAllOrNothing ==
  (last.op = "RENAME" /\ last.key # last.key2 /\ last.hits > 0 /\ last.err # NoError) =>
     table = last.pre

\* the last command was a FLUSHDB of LMDB whose walk took place
LmdbFlushWalked ==
  /\ backend = "lmdb"
  /\ last.op = "FLUSHDB"
  /\ Occurrences(last.ev, "cursor_open") = 1

\* the commits the last command asked for, and its aborts
Commits == Occurrences(last.ev, "txn_commit") + Occurrences(last.ev, "txn_commit_failed")

Aborts == Occurrences(last.ev, "txn_abort")

\* a walk that met no key: abort, success, nothing committed
FlushOfEmptyAborts ==
  last.size = 0 =>
     /\ Commits = 0
     /\ Aborts = 1
     /\ last.err = NoError
     /\ table = last.pre

\* one commit, and its result is the result of the command
FlushCommitsOnce ==
  /\ Commits = 1
  /\ Aborts = 0
  /\ last.err = NoError <=> Occurrences(last.ev, "txn_commit") = 1

\* C31: an LMDB FlushDB whose walk met no key aborts its transaction and
\* returns success; one whose walk met at least one key commits exactly
\* once and returns the result of the commit.
C31_FlushCommitsWhenVisited ==
  LmdbFlushWalked =>
     /\ FlushOfEmptyAborts
     /\ last.size > 0 => FlushCommitsOnce

\* C31 amended: as above, but a walk that met a key whose delete failed
\* aborts the transaction, commits nothing and returns the error of the
\* delete.
C31_FlushCommitsUnlessDeleteFails ==
  LmdbFlushWalked =>
     /\ FlushOfEmptyAborts
     /\ last.size > 0 =>
          \/ FlushCommitsOnce
          \/ /\ Commits = 0
             /\ Aborts = 1
             /\ last.hits = 1
             /\ last.err = LmdbCheckResultCommand("FLUSHDB", MDB_FAIL)
             /\ table = last.pre

\* the delete of the second key fails
C31_Witness ==
  /\ LmdbFlushWalked
  /\ last.size = 2
  /\ Len(last.pre) >= 2
  /\ Commits = 0
  /\ Aborts = 1
  /\ last.err # NoError

\* the commands that only read
ReadOnlyOps == { "GET", "SCAN", "KEYS", "DBKCOUNT", "CONFIG GET DATABASES" }

\* C32: a step of Get, Scan, Keys, Count or ConfigGetDatabases, with or
\* without a native failure, with or without an error, leaves the open
\* table, the tables of the environment, the handle with its table
\* reference and the current-table name as they were, and each transaction
\* it began on LMDB is aborted: none is committed.
C32_ReadOnlyChangesNothing ==
  [][ (last.op = "NONE" /\ last'.op \in ReadOnlyOps) =>
        /\ table' = table
        /\ store' = store
        /\ handle' = handle
        /\ GetCurrentDBName(backend', handle', config') = GetCurrentDBName(backend, handle, config)
        /\ Occurrences(last'.ev, "txn_commit") = 0
        /\ Occurrences(last'.ev, "txn_commit_failed") = 0
        /\ Occurrences(last'.ev, "txn_abort") = Occurrences(last'.ev, "txn_begin") ]_vars

\* a successful GET of a key of the table "x" of LMDB
C32_Witness ==
  /\ backend = "lmdb"
  /\ last.op = "GET"
  /\ OpenTable(backend, handle) = <<120>>
  /\ HasKey(table, last.key)
  /\ last.err = NoError
  /\ last.ev = <<"txn_begin", "txn_abort">>

\* what DBKCOUNT answers on the table t, no native failure
CountOf(t) == DBkcountImpl(backend, t, {}, 0).size

Successful(op) == last.op = op /\ last.err = NoError

\* C33: DBKCOUNT answers the number of distinct keys of the current table,
\* whatever commands came before; a successful SET of a new key raises that
\* number by one and of a present key leaves it, a successful DEL that
\* deleted a present key lowers it by one, a successful RENAME to an absent key leaves
\* it and onto a present other key lowers it by one, a successful FLUSHDB
\* that met no failure makes it 0.
C33_CountIsDistinctKeys ==
  /\ CountNow.err = NoError
  /\ CountNow.size = Cardinality(TableKeys(table))
  /\ CleanReply("DBKCOUNT") => last.size = Cardinality(TableKeys(table))
  /\ Successful("SET") =>
       CountOf(table) = CountOf(last.pre) + (IF HasKey(last.pre, last.key) THEN 0 ELSE 1)
  /\ (/\ Successful("DEL")
      /\ Len(last.keys) = 1
      /\ HasKey(last.pre, last.keys[1])
      /\ last.keys_out = last.keys) =>                   \* reported as deleted
       CountOf(table) = CountOf(last.pre) - 1
  /\ (Successful("RENAME") /\ last.key # last.key2) =>
       CountOf(table) = CountOf(last.pre) - (IF HasKey(last.pre, last.key2) THEN 1 ELSE 0)
  /\ CleanReply("FLUSHDB") => CountOf(table) = 0

\* a RENAME onto another key of the table
C33_Witness ==
  /\ Successful("RENAME")
  /\ last.key # last.key2
  /\ HasKey(last.pre, last.key2)
  /\ Len(last.pre) = 3
  /\ CountNow.size = 2

\* C34: a Connect that returns an error has closed every environment it
\* created and leaves the handle null.
C34_FailedConnectClosesEnv ==
  (last.op = "CONNECT" /\ last.err # NoError) =>
     /\ Occurrences(last.ev, "env_close") = Occurrences(last.ev, "env_create")
     /\ handle = NullHandle

\* the answers of the two backends to the last SCAN and to the last KEYS,
\* on the table and with the arguments of the command, no native failure
LmdbScanAnswer == LmdbScanImpl(last.pre, last.cursor_in, last.pattern, last.count, {})

UpsScanAnswer == UpsScanImpl(last.pre, last.cursor_in, last.pattern, last.count, {})

LmdbKeysAnswer == LmdbKeysImpl(last.pre, last.key, last.key2, last.count, {})

UpsKeysAnswer == UpsKeysImpl(last.pre, last.key, last.key2, last.count, {})

\* C35: with no native failure, LMDB and upscaledb answer a SCAN with the
\* same keys and the same cursorOut and a KEYS with the same keys, for every
\* table and all arguments; stated here for a page size and a limit of at
\* least 1.
C35_BackendsEquivalent ==
  /\ (last.op = "SCAN" /\ last.count > 0) =>
       /\ LmdbScanAnswer.err = NoError
       /\ UpsScanAnswer.err = NoError
       /\ LmdbScanAnswer.keys_out = UpsScanAnswer.keys_out
       /\ LmdbScanAnswer.cursor_out = UpsScanAnswer.cursor_out
  /\ (last.op = "KEYS" /\ last.count > 0) =>
       /\ LmdbKeysAnswer.err = NoError
       /\ UpsKeysAnswer.err = NoError
       /\ LmdbKeysAnswer.ret = UpsKeysAnswer.ret
================================================================================
